---- MODULE Spec2Model ----
(***************************************************************************)
(* collab-backend-token-auth: the requireAccessToken middleware, the token *)
(* cache, the cache sweep and authInit of src/src/index.js as a state      *)
(* machine.                                                                *)
(*                                                                         *)
(* Node runs one callback at a time, and a chain of promise reactions runs *)
(* to its end before any other timer or I/O callback.  A request therefore *)
(* takes one step from the call of the handler to the point where fetch()  *)
(* is pending (or to its end, when no fetch is made), and one more step    *)
(* from the settlement of fetch() to next() or to the error response.      *)
(*                                                                         *)
(* JavaScript values are tagged records [t |-> type, v |-> value]; objects *)
(* are records whose DOMAIN is the set of their own properties, so that    *)
(* Object.hasOwn(o, "p") is "p" \in DOMAIN o.  A string is a sequence of   *)
(* runs [c |-> character, n |-> count] in which adjacent runs differ: the  *)
(* string "aab" is <<[c |-> "a", n |-> 2], [c |-> "b", n |-> 1]>>.         *)
(***************************************************************************)
EXTENDS Integers, Sequences, FiniteSets, Bags, TLC

-----------------------------------------------------------------------------
(* JavaScript values                                                       *)

Null == [t |-> "null"]
Str(s) == [t |-> "string", v |-> s]
Num(n) == [t |-> "number", v |-> n]
Arr(a) == [t |-> "array", v |-> a]
Obj(o) == [t |-> "object", v |-> o]

hasOwn(o, p) == p \in DOMAIN o

(* typeof x === 'string' *)
IsString(x) == x.t = "string"

(* Array.isArray(x) *)
IsArray(x) == x.t = "array"

(* x == null *)
IsNull(x) == x.t = "null"

-----------------------------------------------------------------------------
(* Strings                                                                 *)

NUL == "NUL"

Run(ch, k) == [c |-> ch, n |-> k]

RECURSIVE Norm(_)
(* The canonical form of a sequence of runs: no empty run, and adjacent    *)
(* runs of the same character merged.                                      *)
Norm(s) ==
  IF s = <<>> THEN <<>>
  ELSE IF Head(s).n = 0 THEN Norm(Tail(s))
  ELSE LET rest == Norm(Tail(s)) IN
       IF rest # <<>> /\ Head(rest).c = Head(s).c
       THEN <<Run(Head(s).c, Head(s).n + Head(rest).n)>> \o Tail(rest)
       ELSE <<Head(s)>> \o rest

(* The string literal whose characters are the elements of chars. *)
Lit(chars) == Norm([i \in 1..Len(chars) |-> Run(chars[i], 1)])

(* a + b *)
Concat(a, b) == Norm(a \o b)

(* ch repeated k times *)
Repeat(ch, k) == Norm(<<Run(ch, k)>>)

RECURSIVE StrLen(_)
(* s.length *)
StrLen(s) == IF s = <<>> THEN 0 ELSE Head(s).n + StrLen(Tail(s))

LowerChar(ch) ==
  CASE ch = "B" -> "b"
    [] ch = "E" -> "e"
    [] ch = "A" -> "a"
    [] ch = "R" -> "r"
    [] OTHER -> ch

(* s.toLowerCase() *)
toLowerCase(s) == Norm([i \in 1..Len(s) |-> Run(LowerChar(s[i].c), s[i].n)])

RECURSIVE SplitRuns(_, _, _, _)
SplitRuns(s, sep, parts, cur) ==
  IF s = <<>> THEN Append(parts, cur)
  ELSE IF Head(s).c = sep
       THEN SplitRuns(Tail(s), sep,
                      parts \o <<cur>> \o [i \in 1..(Head(s).n - 1) |-> <<>>],
                      <<>>)
       ELSE SplitRuns(Tail(s), sep, parts, Append(cur, Head(s)))

(* s.split(sep), sep a single character: k separators give k + 1 parts. *)
split(s, sep) == SplitRuns(s, sep, <<>>, <<>>)

-----------------------------------------------------------------------------
(* Module configuration and constants of the source                        *)

MaxHeaderLength == 4096
FetchTimeoutSeconds == 5
DefaultTokenCacheSeconds == 60
DefaultTokenCacheCleanSeconds == 300


(* Clock resolution: the clock counts ticks, TicksPerSec of them a second. *)
TicksPerSec == 2

VARIABLES
  authURL,                 \* module configuration, null until authInit
  clientId,
  clientSecret,
  tokenCacheSeconds,
  tokenCacheCleanSeconds,
  tokenCache,              \* sequence of {token, introspect, cacheExpires}
  timers,                  \* bag of the due times of the pending sweep timers
  now,                     \* Date.now(), in ticks
  pending,                 \* the handler calls whose fetch() has not settled
  last,                    \* what the most recent step did
  nreq,                    \* requests handled so far
  ninit                    \* authInit calls so far

vars == <<authURL, clientId, clientSecret, tokenCacheSeconds, tokenCacheCleanSeconds,
          tokenCache, timers, now, pending, last, nreq, ninit>>

config == <<authURL, clientId, clientSecret, tokenCacheSeconds, tokenCacheCleanSeconds>>

(* Math.floor(Date.now() / 1000) *)
nowSeconds(t) == t \div TicksPerSec

(* Date.now() + seconds * 1000 *)
plusSeconds(t, seconds) == t + seconds * TicksPerSec

-----------------------------------------------------------------------------
(* Objects                                                                 *)

Undefined == [t |-> "undefined"]
Bool(b) == [t |-> "boolean", v |-> b]

EmptyObject == [p \in {} |-> Null]

(* o.p, undefined when o has no own property p *)
Get(o, p) == IF hasOwn(o, p) THEN o[p] ELSE Undefined

(* o.p = v *)
Set(o, p, v) == [q \in DOMAIN o \cup {p} |-> IF q = p THEN v ELSE o[q]]

(* x == null, true of null and of undefined *)
IsNullish(x) == x.t \in {"null", "undefined"}

(* the truth value of x in a condition *)
Truthy(x) ==
  CASE x.t \in {"null", "undefined"} -> FALSE
    [] x.t = "boolean" -> x.v
    [] x.t = "number" -> x.v # 0
    [] x.t = "string" -> x.v # <<>>
    [] OTHER -> TRUE

(* x > n and x < n for a number n: false when x is not a number *)
Greater(x, n) == x.t = "number" /\ x.v > n
Less(x, n) == x.t = "number" /\ x.v < n

-----------------------------------------------------------------------------
(* Promises.  A settled promise carries the world w it was settled in:     *)
(* w.chain is the chain object, w.req the request object, w.tokenCache the *)
(* module's cache, w.calls the number of fetch() calls made for the        *)
(* request, w.stages the stages that have run and w.fetchTimer the state   *)
(* of the supervisory timer of the request: "none" when none was set,      *)
(* "set" from setTimeout, "cleared" after clearTimeout.                    *)

Resolve(w) == [state |-> "fulfilled", w |-> w, reason |-> EmptyObject]
Reject(err, w) == [state |-> "rejected", w |-> w, reason |-> err]
Waiting(w) == [state |-> "pending", w |-> w, reason |-> EmptyObject]

(* p.then(F).  (The promise is bound as the element of a singleton, here   *)
(* and in the actions, so that its value is computed once.)                *)
Then(p, F(_)) ==
  CHOOSE r \in {IF q.state = "fulfilled" THEN F(q.w) ELSE q : q \in {p}} : TRUE

Enter(w, stage) == [w EXCEPT !.stages = Append(@, stage)]

(* new Error(message), and the same with err.status = status *)
Error(message) == [message |-> message]
ErrorStatus(message, status) == [message |-> message, status |-> status]

-----------------------------------------------------------------------------
(* The stages of the promise chain of requireAccessToken                   *)

(* The options parser of _initChainObject: the scope list it builds. *)
parseScope(scope) ==
  IF IsString(scope) /\ StrLen(scope.v) > 0 THEN <<scope>>
  ELSE IF IsArray(scope) /\ Len(scope.v) > 0
       THEN SelectSeq(scope.v, LAMBDA scopeString:
                        IsString(scopeString) /\ StrLen(scopeString.v) > 0)
       ELSE <<>>

_initChainObject(options, w0) ==
  LET w == Enter(w0, "initChainObject") IN
  IF IsNull(authURL) \/ IsNull(clientId) \/ IsNull(clientSecret)
  THEN Reject(Error("Module configuration not found"), w)
  ELSE LET opt == IF ~IsNullish(options) /\ hasOwn(options.v, "scope")
                  THEN [scope |-> Arr(parseScope(options.v.scope))]
                  ELSE EmptyObject
       IN Resolve([w EXCEPT !.chain = [options |-> Obj(opt),
                                        accessToken |-> Null,
                                        introspect |-> Null]])

(* Mutant: the token is not required to have three segments. *)
_extractTokenFromHeader_anySegments(w0) ==
  LET w == Enter(w0, "extractTokenFromHeader")
      req == w.req
  IN
  IF hasOwn(req, "headers")
  THEN IF hasOwn(req.headers, "authorization") /\ IsString(req.headers.authorization)
       THEN IF StrLen(req.headers.authorization.v) < MaxHeaderLength
            THEN LET authHeaderArray == split(req.headers.authorization.v, " ") IN
                 IF /\ Len(authHeaderArray) = 2
                    /\ toLowerCase(authHeaderArray[1]) = Lit(<<"b", "e", "a", "r", "e", "r">>)
                    /\ StrLen(authHeaderArray[2]) > 0
                 THEN Resolve([w EXCEPT !.chain.accessToken = Str(authHeaderArray[2])])
                 ELSE Reject(ErrorStatus("Expected Bearer token", 401), w)
            ELSE Reject(ErrorStatus("Authorization header exceeds maximum length", 401), w)
       ELSE Reject(ErrorStatus("No authorization header", 401), w)
  ELSE Reject(ErrorStatus("Headers not found in req object", 500), w)

_extractTokenFromHeader(w0) ==
  LET w == Enter(w0, "extractTokenFromHeader")
      req == w.req
  IN
  IF hasOwn(req, "headers")
  THEN IF hasOwn(req.headers, "authorization") /\ IsString(req.headers.authorization)
       THEN IF StrLen(req.headers.authorization.v) < MaxHeaderLength
            THEN LET authHeaderArray == split(req.headers.authorization.v, " ") IN
                 IF /\ Len(authHeaderArray) = 2
                    /\ toLowerCase(authHeaderArray[1]) = Lit(<<"b", "e", "a", "r", "e", "r">>)
                    /\ StrLen(authHeaderArray[2]) > 0
                    /\ Len(split(authHeaderArray[2], ".")) = 3
                 THEN Resolve([w EXCEPT !.chain.accessToken = Str(authHeaderArray[2])])
                 ELSE Reject(ErrorStatus("Expected Bearer token", 401), w)
            ELSE Reject(ErrorStatus("Authorization header exceeds maximum length", 401), w)
       ELSE Reject(ErrorStatus("No authorization header", 401), w)
  ELSE Reject(ErrorStatus("Headers not found in req object", 500), w)

(* Buffer.alloc(bufferLength) with the token written at its start *)
tokenBuffer(token, bufferLength) ==
  Concat(token, <<Run(NUL, bufferLength - StrLen(token))>>)

safeCompare(token1, token2) ==
  LET token1Length == StrLen(token1)
      token2Length == StrLen(token2)
      bufferLength == IF token1Length > token2Length THEN token1Length ELSE token2Length
  IN tokenBuffer(token1, bufferLength) = tokenBuffer(token2, bufferLength)

(* Mutant: the expiry of the token itself is not looked at. *)
cacheMatch_noExp(storedToken, accessToken, t) ==
  /\ safeCompare(storedToken.token.v, accessToken.v)
  /\ Truthy(Get(storedToken.introspect.v, "active"))
  /\ storedToken.cacheExpires > t

(* The test of tokenCache.find in _findCachedToken *)
cacheMatch(storedToken, accessToken, t) ==
  /\ safeCompare(storedToken.token.v, accessToken.v)
  /\ Truthy(Get(storedToken.introspect.v, "active"))
  /\ Greater(Get(storedToken.introspect.v, "exp"), nowSeconds(t))
  /\ storedToken.cacheExpires > t

(* Mutant: the last entry that passes is taken. *)
findIndex_last(cache, accessToken, t) ==
  LET hits == {i \in 1..Len(cache) : cacheMatch(cache[i], accessToken, t)} IN
  IF hits = {} THEN 0 ELSE CHOOSE i \in hits : \A j \in hits : i >= j

(* tokenCache.find(test): the index of the first entry that passes, or 0 *)
findIndex(cache, accessToken, t) ==
  LET hits == {i \in 1..Len(cache) : cacheMatch(cache[i], accessToken, t)} IN
  IF hits = {} THEN 0 ELSE CHOOSE i \in hits : \A j \in hits : i <= j

(* Mutant: a hit is not marked as coming from the cache. *)
_findCachedToken_unmarked(w0) ==
  LET w == Enter(w0, "findCachedToken")
      chain == w.chain
  IN
  IF hasOwn(chain, "accessToken") /\ ~IsNullish(chain.accessToken)
  THEN IF tokenCacheSeconds > 0
       THEN LET found == findIndex(w.tokenCache, chain.accessToken, now) IN
            IF found # 0
            THEN Resolve([w EXCEPT !.chain =
                    Set(chain, "introspect", w.tokenCache[found].introspect)])
            ELSE Resolve([w EXCEPT !.chain = Set(chain, "introspect", Null)])
       ELSE Resolve([w EXCEPT !.chain = Set(chain, "introspect", Null)])
  ELSE Resolve([w EXCEPT !.chain = Set(chain, "introspect", Null)])

(* Mutant: a hit renews the cacheExpires of the entry it has found. *)
_findCachedToken_renew(w0) ==
  LET w == Enter(w0, "findCachedToken")
      chain == w.chain
  IN
  IF hasOwn(chain, "accessToken") /\ ~IsNullish(chain.accessToken)
  THEN IF tokenCacheSeconds > 0
       THEN LET found == findIndex(w.tokenCache, chain.accessToken, now) IN
            IF found # 0
            THEN Resolve([w EXCEPT
                    !.chain =
                      Set(Set(chain, "introspect", w.tokenCache[found].introspect),
                          "introspectWasCached", Bool(TRUE)),
                    !.tokenCache[found].cacheExpires =
                      plusSeconds(now, tokenCacheSeconds)])
            ELSE Resolve([w EXCEPT !.chain = Set(chain, "introspect", Null)])
       ELSE Resolve([w EXCEPT !.chain = Set(chain, "introspect", Null)])
  ELSE Resolve([w EXCEPT !.chain = Set(chain, "introspect", Null)])

_findCachedToken(w0) ==
  LET w == Enter(w0, "findCachedToken")
      chain == w.chain
  IN
  IF hasOwn(chain, "accessToken") /\ ~IsNullish(chain.accessToken)
  THEN IF tokenCacheSeconds > 0
       THEN LET found == findIndex(w.tokenCache, chain.accessToken, now) IN
            IF found # 0
            THEN Resolve([w EXCEPT !.chain =
                    Set(Set(chain, "introspect", w.tokenCache[found].introspect),
                        "introspectWasCached", Bool(TRUE))])
            ELSE Resolve([w EXCEPT !.chain = Set(chain, "introspect", Null)])
       ELSE Resolve([w EXCEPT !.chain = Set(chain, "introspect", Null)])
  ELSE Resolve([w EXCEPT !.chain = Set(chain, "introspect", Null)])

(* The condition of _validateToken under which the cached result is trusted *)
trustCached(chain) ==
  /\ hasOwn(chain, "accessToken")
  /\ ~IsNullish(chain.accessToken) /\ StrLen(chain.accessToken.v) > 0
  /\ hasOwn(chain, "introspectWasCached") /\ chain.introspectWasCached = Bool(TRUE)
  /\ hasOwn(chain, "introspect")
  /\ hasOwn(chain.introspect.v, "active") /\ chain.introspect.v.active = Bool(TRUE)

(* Mutant: fetch() is called a second time. *)
_validateToken_twice(w0) ==
  LET w == Enter(w0, "validateToken") IN
  IF trustCached(w.chain)
  THEN Resolve(w)
  ELSE Waiting([w EXCEPT !.calls = @ + 2, !.fetchTimer = "set"])

(* _validateToken up to the call of fetch(): fulfilled with the chain when *)
(* the cached result is trusted, pending after one fetch() otherwise.      *)
_validateToken(w0) ==
  LET w == Enter(w0, "validateToken") IN
  IF trustCached(w.chain)
  THEN Resolve(w)
  ELSE Waiting([w EXCEPT !.calls = @ + 1, !.fetchTimer = "set"])

(* Mutant: the status of the upstream response is handed on. *)
fetchError_upstream(err) ==
  IF hasOwn(err, "status")
  THEN ErrorStatus("HTTP status error", err.status)
  ELSE ErrorStatus("Fetch error", 401)

(* The caller-facing error _validateToken rejects with, from the error err *)
(* caught in its fetch chain.                                              *)
fetchError(err) ==
  ErrorStatus(IF hasOwn(err, "status") THEN "HTTP status error" ELSE "Fetch error", 401)

(* Mutant: the timer is cleared only where the body of a 200 response has  *)
(* been parsed.                                                            *)
_validateTokenSettled_timerLeft(w0, outcome) ==
  IF outcome.kind = "response"
  THEN IF outcome.status = 200
       THEN IF outcome.parses
            THEN Resolve([w0 EXCEPT !.chain = Set(w0.chain, "introspect", outcome.json),
                                    !.fetchTimer = "cleared"])
            ELSE Reject(fetchError(Error("Unexpected token in JSON")), w0)
       ELSE Reject(fetchError(ErrorStatus("HTTP status error", outcome.status)), w0)
  ELSE IF outcome.kind = "abort"
       THEN Reject(fetchError(Error("This operation was aborted")), w0)
       ELSE Reject(fetchError(Error("fetch failed")), w0)

(* _validateToken from the settlement of fetch(): the outcome is a         *)
(* response with a status and a body, a network failure, or the abort by   *)
(* the supervisory timer.                                                  *)
_validateTokenSettled(w0, outcome) ==
  LET w == [w0 EXCEPT !.fetchTimer = "cleared"] IN
  IF outcome.kind = "response"
  THEN IF outcome.status = 200
       THEN IF outcome.parses
            THEN Resolve([w EXCEPT !.chain = Set(w.chain, "introspect", outcome.json)])
            ELSE Reject(fetchError(Error("Unexpected token in JSON")), w)
       ELSE Reject(fetchError(ErrorStatus("HTTP status error", outcome.status)), w)
  ELSE IF outcome.kind = "abort"
       THEN Reject(fetchError(Error("This operation was aborted")), w)
       ELSE Reject(fetchError(Error("fetch failed")), w)

(* Mutant: a result that is not active is an access error. *)
_checkTokenActive_forbidden(w0) ==
  LET w == Enter(w0, "checkTokenActive")
      chain == w.chain
  IN
  IF /\ hasOwn(chain, "accessToken") /\ ~IsNullish(chain.accessToken)
     /\ hasOwn(chain, "introspect") /\ ~IsNullish(chain.introspect)
     /\ chain.introspect.t = "object"
     /\ hasOwn(chain.introspect.v, "active")
     /\ chain.introspect.v.active = Bool(TRUE)
     /\ hasOwn(chain.introspect.v, "client")
  THEN Resolve(w)
  ELSE Reject(ErrorStatus("Error, Token not active.", 403), w)

(* Mutant: any result that is an object passes. *)
_checkTokenActive_anyResult(w0) ==
  LET w == Enter(w0, "checkTokenActive")
      chain == w.chain
  IN
  IF /\ hasOwn(chain, "accessToken") /\ ~IsNullish(chain.accessToken)
     /\ hasOwn(chain, "introspect") /\ ~IsNullish(chain.introspect)
     /\ chain.introspect.t = "object"
  THEN Resolve(w)
  ELSE Reject(ErrorStatus("Error, Token not active.", 401), w)

(* Mutant: the client property is not asked for. *)
_checkTokenActive_noClient(w0) ==
  LET w == Enter(w0, "checkTokenActive")
      chain == w.chain
  IN
  IF /\ hasOwn(chain, "accessToken") /\ ~IsNullish(chain.accessToken)
     /\ hasOwn(chain, "introspect") /\ ~IsNullish(chain.introspect)
     /\ chain.introspect.t = "object"
     /\ hasOwn(chain.introspect.v, "active")
     /\ chain.introspect.v.active = Bool(TRUE)
  THEN Resolve(w)
  ELSE Reject(ErrorStatus("Error, Token not active.", 401), w)

_checkTokenActive(w0) ==
  LET w == Enter(w0, "checkTokenActive")
      chain == w.chain
  IN
  IF /\ hasOwn(chain, "accessToken") /\ ~IsNullish(chain.accessToken)
     /\ hasOwn(chain, "introspect") /\ ~IsNullish(chain.introspect)
     /\ chain.introspect.t = "object"
     /\ hasOwn(chain.introspect.v, "active")
     /\ chain.introspect.v.active = Bool(TRUE)
     /\ hasOwn(chain.introspect.v, "client")
  THEN Resolve(w)
  ELSE Reject(ErrorStatus("Error, Token not active.", 401), w)

(* Mutant: the result is saved without its user property. *)
_saveTokenToCache_noUser(w0) ==
  LET w == Enter(w0, "saveTokenToCache")
      chain == w.chain
  IN
  IF tokenCacheSeconds > 0
  THEN IF /\ hasOwn(chain, "accessToken") /\ ~IsNullish(chain.accessToken)
          /\ hasOwn(chain, "introspect") /\ ~IsNullish(chain.introspect)
          /\ ~hasOwn(chain, "introspectWasCached")
       THEN Resolve([w EXCEPT !.tokenCache = Append(@,
                      [token |-> chain.accessToken,
                       introspect |-> Obj([q \in DOMAIN chain.introspect.v \ {"user"} |->
                                             chain.introspect.v[q]]),
                       cacheExpires |-> plusSeconds(now, tokenCacheSeconds)])])
       ELSE Resolve(w)
  ELSE Resolve(w)

(* Mutant: a result taken from the cache is saved again. *)
_saveTokenToCache_again(w0) ==
  LET w == Enter(w0, "saveTokenToCache")
      chain == w.chain
  IN
  IF tokenCacheSeconds > 0
  THEN IF /\ hasOwn(chain, "accessToken") /\ ~IsNullish(chain.accessToken)
          /\ hasOwn(chain, "introspect") /\ ~IsNullish(chain.introspect)
       THEN Resolve([w EXCEPT !.tokenCache = Append(@,
                      [token |-> chain.accessToken,
                       introspect |-> chain.introspect,
                       cacheExpires |-> plusSeconds(now, tokenCacheSeconds)])])
       ELSE Resolve(w)
  ELSE Resolve(w)

(* Mutant: the token is saved whatever tokenCacheSeconds is. *)
_saveTokenToCache_always(w0) ==
  LET w == Enter(w0, "saveTokenToCache")
      chain == w.chain
  IN
  IF /\ hasOwn(chain, "accessToken") /\ ~IsNullish(chain.accessToken)
     /\ hasOwn(chain, "introspect") /\ ~IsNullish(chain.introspect)
     /\ ~hasOwn(chain, "introspectWasCached")
  THEN Resolve([w EXCEPT !.tokenCache = Append(@,
                 [token |-> chain.accessToken,
                  introspect |-> chain.introspect,
                  cacheExpires |-> plusSeconds(now, tokenCacheSeconds)])])
  ELSE Resolve(w)

_saveTokenToCache(w0) ==
  LET w == Enter(w0, "saveTokenToCache")
      chain == w.chain
  IN
  IF tokenCacheSeconds > 0
  THEN IF /\ hasOwn(chain, "accessToken") /\ ~IsNullish(chain.accessToken)
          /\ hasOwn(chain, "introspect") /\ ~IsNullish(chain.introspect)
          /\ ~hasOwn(chain, "introspectWasCached")
       THEN Resolve([w EXCEPT !.tokenCache = Append(@,
                      [token |-> chain.accessToken,
                       introspect |-> chain.introspect,
                       cacheExpires |-> plusSeconds(now, tokenCacheSeconds)])])
       ELSE Resolve(w)
  ELSE Resolve(w)

(* if (!Object.hasOwn(req, 'locals')) req.locals = Object.create(null) *)
withLocals(req) == IF hasOwn(req, "locals") THEN req ELSE Set(req, "locals", EmptyObject)

_addTokenScopeToReqObject(w0) ==
  LET w == Enter(w0, "addTokenScopeToReqObject")
      req == withLocals(w.req)
      chain == w.chain
  IN
  IF /\ hasOwn(chain, "introspect") /\ ~IsNullish(chain.introspect)
     /\ hasOwn(chain.introspect.v, "scope")
  THEN Resolve([w EXCEPT !.req = [req EXCEPT !.locals =
          Set(@, "tokenScope", IF Truthy(chain.introspect.v.scope)
                               THEN chain.introspect.v.scope ELSE Arr(<<>>))]])
  ELSE Resolve([w EXCEPT !.req = req])

(* parseInt(x) of a number x: the model's numbers are integers already *)
parseInt(x) == Num(x.v)

(* req.locals.user, created empty when req.locals has none *)
userOf(locals) == IF hasOwn(locals, "user") THEN locals.user ELSE EmptyObject

_addUserIdToReqObject(w0) ==
  LET w == Enter(w0, "addUserIdToReqObject")
      req == withLocals(w.req)
      chain == w.chain
      user == chain.introspect.v.user.v
      hasNumber == /\ hasOwn(user, "number") /\ ~IsNullish(user.number)
                   /\ Greater(user.number, 0)
      hasId == /\ hasOwn(user, "id") /\ ~IsNullish(user.id)
               /\ StrLen(user.id.v) > 0
      locals1 == IF hasNumber
                 THEN Set(Set(req.locals, "user",
                              Set(userOf(req.locals), "number", parseInt(user.number))),
                          "userid", parseInt(user.number))
                 ELSE req.locals
      locals2 == IF hasId
                 THEN Set(locals1, "user", Set(userOf(locals1), "id", user.id))
                 ELSE locals1
  IN
  IF /\ hasOwn(chain, "introspect") /\ ~IsNullish(chain.introspect)
     /\ hasOwn(chain.introspect.v, "user")
  THEN IF IsNullish(chain.introspect.v.user)
       THEN \* Object.hasOwn(null, 'number') throws a TypeError
            Reject(Error("Cannot convert undefined or null to object"), [w EXCEPT !.req = req])
       ELSE Resolve([w EXCEPT !.req = [req EXCEPT !.locals = locals2]])
  ELSE Resolve([w EXCEPT !.req = req])

(* typeof x === 'string' ? [x] : x *)
asArray(x) == IF IsString(x) THEN <<x>> ELSE x.v

(* array.indexOf(x) >= 0 *)
includes(array, x) == \E i \in 1..Len(array) : array[i] = x

(* Mutant: every required scope must be granted. *)
_restrictByScope_all(w0) ==
  LET w == Enter(w0, "restrictByScope")
      chain == w.chain
      req == w.req
      chainScope == asArray(chain.options.v.scope)
      reqScope == asArray(req.locals.tokenScope)
      scopeFound ==
        /\ hasOwn(req, "locals") /\ hasOwn(req.locals, "tokenScope")
        /\ Len(chainScope) > 0 /\ Len(reqScope) > 0
        /\ \A i \in 1..Len(chainScope) : includes(reqScope, chainScope[i])
  IN
  IF /\ hasOwn(chain, "options") /\ ~IsNullish(chain.options)
     /\ hasOwn(chain.options.v, "scope")
     /\ Len(chain.options.v.scope.v) > 0
  THEN IF scopeFound
       THEN Resolve(w)
       ELSE Reject(ErrorStatus("Forbidden, token has insufficient scope", 403), w)
  ELSE Resolve(w)

(* Mutant: an empty scope list restricts too. *)
_restrictByScope_empty(w0) ==
  LET w == Enter(w0, "restrictByScope")
      chain == w.chain
      req == w.req
      chainScope == asArray(chain.options.v.scope)
      reqScope == asArray(req.locals.tokenScope)
      scopeFound ==
        /\ hasOwn(req, "locals") /\ hasOwn(req.locals, "tokenScope")
        /\ Len(chainScope) > 0 /\ Len(reqScope) > 0
        /\ \E i \in 1..Len(chainScope) : includes(reqScope, chainScope[i])
  IN
  IF /\ hasOwn(chain, "options") /\ ~IsNullish(chain.options)
     /\ hasOwn(chain.options.v, "scope")
  THEN IF scopeFound
       THEN Resolve(w)
       ELSE Reject(ErrorStatus("Forbidden, token has insufficient scope", 403), w)
  ELSE Resolve(w)

(* Mutant: no restriction at all. *)
_restrictByScope_none(w0) == Resolve(Enter(w0, "restrictByScope"))

_restrictByScope(w0) ==
  LET w == Enter(w0, "restrictByScope")
      chain == w.chain
      req == w.req
      chainScope == asArray(chain.options.v.scope)
      reqScope == asArray(req.locals.tokenScope)
      scopeFound ==
        /\ hasOwn(req, "locals") /\ hasOwn(req.locals, "tokenScope")
        /\ Len(chainScope) > 0 /\ Len(reqScope) > 0
        /\ \E i \in 1..Len(chainScope) : includes(reqScope, chainScope[i])
  IN
  IF /\ hasOwn(chain, "options") /\ ~IsNullish(chain.options)
     /\ hasOwn(chain.options.v, "scope")
     /\ Len(chain.options.v.scope.v) > 0
  THEN IF scopeFound
       THEN Resolve(w)
       ELSE Reject(ErrorStatus("Forbidden, token has insufficient scope", 403), w)
  ELSE Resolve(w)


-----------------------------------------------------------------------------
(* The handler returned by requireAccessToken(options)                     *)

(* The world a request starts in *)
world(req) == [chain |-> EmptyObject, req |-> req, tokenCache |-> tokenCache,
               calls |-> 0, stages |-> <<>>, fetchTimer |-> "none"]

(* The chain from _initChainObject to the call of fetch() *)
chainToFetch(options, req) ==
  Then(Then(Then(_initChainObject(options, world(req)),
                 _extractTokenFromHeader),
            _findCachedToken),
       _validateToken)

(* Mutant: the result is saved before it is checked. *)
chainFromFetch_saveFirst(p) ==
  Then(Then(Then(Then(Then(p,
                           _saveTokenToCache),
                      _checkTokenActive),
                 _addTokenScopeToReqObject),
            _addUserIdToReqObject),
       _restrictByScope)

(* The chain from the fulfilment of _validateToken to its end *)
chainFromFetch(p) ==
  Then(Then(Then(Then(Then(p,
                           _checkTokenActive),
                      _saveTokenToCache),
                 _addTokenScopeToReqObject),
            _addUserIdToReqObject),
       _restrictByScope)

(* The status the .catch of requireAccessToken answers err with *)
catchStatus(err) ==
  IF hasOwn(err, "status") /\ err.status = 500 THEN 500
  ELSE IF hasOwn(err, "status") /\ err.status = 403 THEN 403
  ELSE 401

(* Mutant: the error is answered and handed to next() as well. *)
respond_alsoNext(p) ==
  IF p.state = "fulfilled"
  THEN [nextCalls |-> 1, sends |-> 0, status |-> 0, message |-> "", headers |-> {}]
  ELSE [nextCalls |-> 1, sends |-> 1, status |-> catchStatus(p.reason),
        message |-> p.reason.message, headers |-> {}]

(* What the handler has done to next and res when the chain p has settled: *)
(* .then(next()) on fulfilment, .catch(res.status(status).send(message))   *)
(* on rejection.  headers holds the names of the headers the handler has   *)
(* set on res: it sets none.                                               *)
respond(p) ==
  IF p.state = "fulfilled"
  THEN [nextCalls |-> 1, sends |-> 0, status |-> 0, message |-> "", headers |-> {}]
  ELSE [nextCalls |-> 0, sends |-> 1, status |-> catchStatus(p.reason),
        message |-> p.reason.message, headers |-> {}]

NoResponse == [nextCalls |-> 0, sends |-> 0, status |-> 0, message |-> "", headers |-> {}]
NoFetch == [kind |-> "none"]

(* The record of a step: the operation, its inputs (the options and the    *)
(* request as it came in, the outcome of fetch()), the promise the chain   *)
(* ended with and what was done to next and res.                           *)
Event(op, options, req, fetch, p, res) ==
  [op |-> op, options |-> options, req |-> req, fetch |-> fetch, p |-> p, res |-> res]

Quiet(op) == Event(op, Null, EmptyObject, NoFetch, Waiting(EmptyObject), NoResponse)

(* The record of a run of the sweep: before is the cache it found *)
SweepEvent(before) ==
  [op |-> "sweep", options |-> Null, req |-> EmptyObject, fetch |-> NoFetch,
   p |-> Waiting(EmptyObject), res |-> NoResponse, before |-> before]

-----------------------------------------------------------------------------
(* authInit and the cache sweep                                            *)

(* Mutant: an empty string is taken for a value. *)
validOption_anyString(options, p) ==
  hasOwn(options, p) /\ IsString(options[p])

(* typeof x === 'string' && x.length > 0, for the own property p of options *)
validOption(options, p) ==
  hasOwn(options, p) /\ IsString(options[p]) /\ StrLen(options[p].v) > 0

(* Mutant: the first sweep is scheduled whatever tokenCacheSeconds is. *)
authInit_alwaysArmed(options) ==
  LET c0 == [authURL |-> authURL, clientId |-> clientId, clientSecret |-> clientSecret,
             tokenCacheSeconds |-> tokenCacheSeconds,
             tokenCacheCleanSeconds |-> tokenCacheCleanSeconds,
             threw |-> TRUE, armed |-> FALSE]
      o == options.v
      c1 == [c0 EXCEPT !.authURL = o.authURL]
      c2 == [c1 EXCEPT !.clientId = o.clientId]
      c3 == [c2 EXCEPT !.clientSecret = o.clientSecret]
      c4 == IF hasOwn(o, "tokenCacheSeconds")
            THEN [c3 EXCEPT !.tokenCacheSeconds = o.tokenCacheSeconds.v]
            ELSE c3
      c5 == IF hasOwn(o, "tokenCacheCleanSeconds")
            THEN [c4 EXCEPT !.tokenCacheCleanSeconds = o.tokenCacheCleanSeconds.v]
            ELSE c4
  IN
  IF IsNullish(options) THEN c0
  ELSE IF ~hasOwn(o, "authURL") \/ ~IsString(o.authURL) \/ o.authURL.v = <<>> THEN c0
  ELSE IF ~hasOwn(o, "clientId") \/ ~IsString(o.clientId) \/ o.clientId.v = <<>> THEN c1
  ELSE IF ~hasOwn(o, "clientSecret") \/ ~IsString(o.clientSecret) \/ o.clientSecret.v = <<>>
       THEN c2
  ELSE [c5 EXCEPT !.threw = FALSE, !.armed = TRUE]

(* Mutant: each credential is assigned before it is checked. *)
authInit_assignFirst(options) ==
  LET c0 == [authURL |-> authURL, clientId |-> clientId, clientSecret |-> clientSecret,
             tokenCacheSeconds |-> tokenCacheSeconds,
             tokenCacheCleanSeconds |-> tokenCacheCleanSeconds,
             threw |-> TRUE, armed |-> FALSE]
      o == options.v
      c1 == [c0 EXCEPT !.authURL = Get(o, "authURL")]
      c2 == [c1 EXCEPT !.clientId = Get(o, "clientId")]
      c3 == [c2 EXCEPT !.clientSecret = Get(o, "clientSecret")]
      c4 == IF hasOwn(o, "tokenCacheSeconds")
            THEN [c3 EXCEPT !.tokenCacheSeconds = parseInt(o.tokenCacheSeconds).v]
            ELSE c3
      c5 == IF hasOwn(o, "tokenCacheCleanSeconds")
            THEN [c4 EXCEPT !.tokenCacheCleanSeconds = parseInt(o.tokenCacheCleanSeconds).v]
            ELSE c4
  IN
  IF IsNullish(options) THEN c0
  ELSE IF ~validOption(o, "authURL") THEN c1
  ELSE IF ~validOption(o, "clientId") THEN c2
  ELSE IF ~validOption(o, "clientSecret") THEN c3
  ELSE [c5 EXCEPT !.threw = FALSE, !.armed = (c5.tokenCacheSeconds # 0)]

(* The module configuration after authInit(options), with threw telling    *)
(* whether the call threw and armed whether it scheduled a sweep.  Each    *)
(* assignment is made before the next property is checked.                 *)
authInit(options) ==
  LET c0 == [authURL |-> authURL, clientId |-> clientId, clientSecret |-> clientSecret,
             tokenCacheSeconds |-> tokenCacheSeconds,
             tokenCacheCleanSeconds |-> tokenCacheCleanSeconds,
             threw |-> TRUE, armed |-> FALSE]
      o == options.v
      c1 == [c0 EXCEPT !.authURL = o.authURL]
      c2 == [c1 EXCEPT !.clientId = o.clientId]
      c3 == [c2 EXCEPT !.clientSecret = o.clientSecret]
      c4 == IF hasOwn(o, "tokenCacheSeconds")
            THEN [c3 EXCEPT !.tokenCacheSeconds = parseInt(o.tokenCacheSeconds).v]
            ELSE c3
      c5 == IF hasOwn(o, "tokenCacheCleanSeconds")
            THEN [c4 EXCEPT !.tokenCacheCleanSeconds = parseInt(o.tokenCacheCleanSeconds).v]
            ELSE c4
  IN
  IF IsNullish(options) THEN c0
  ELSE IF ~validOption(o, "authURL") THEN c0
  ELSE IF ~validOption(o, "clientId") THEN c1
  ELSE IF ~validOption(o, "clientSecret") THEN c2
  ELSE [c5 EXCEPT !.threw = FALSE, !.armed = (c5.tokenCacheSeconds # 0)]

(* The due time of setTimeout(f, seconds * 1000) called at time t: a delay *)
(* below 1 ms is a delay of 1 ms, which is less than a tick.               *)
dueTime(t, seconds) == IF seconds > 0 THEN plusSeconds(t, seconds) ELSE t

(* Mutant: an entry is removed at the moment its exp or cacheExpires is     *)
(* reached.                                                                *)
expired_reached(storedToken, t) ==
  \/ ~Greater(Get(storedToken.introspect.v, "exp"), nowSeconds(t))
  \/ storedToken.cacheExpires <= t

(* The test of _removeExpiredCachedTokens *)
expired(storedToken, t) ==
  \/ Less(Get(storedToken.introspect.v, "exp"), nowSeconds(t))
  \/ storedToken.cacheExpires < t

(* array.splice(i, 1) *)
splice(array, i) == SubSeq(array, 1, i - 1) \o SubSeq(array, i + 1, Len(array))

RECURSIVE removeFrom(_, _, _)
(* The loop of _removeExpiredCachedTokens from index i down to the first entry *)
removeFrom(cache, i, t) ==
  IF i < 1 THEN cache
  ELSE removeFrom(IF expired(cache[i], t) THEN splice(cache, i) ELSE cache, i - 1, t)

RECURSIVE removeForward(_, _, _)
(* Mutant: the loop runs from the first entry up, and so steps over the    *)
(* entry that follows a removed one.                                       *)
removeForward(cache, i, t) ==
  IF i > Len(cache) THEN cache
  ELSE removeForward(IF expired(cache[i], t) THEN splice(cache, i) ELSE cache, i + 1, t)

_removeExpiredCachedTokens_forward(cache, t) == removeForward(cache, 1, t)

_removeExpiredCachedTokens(cache, t) == removeFrom(cache, Len(cache), t)

-----------------------------------------------------------------------------
(* Bounds of the model                                                     *)

MaxTime == 5        \* the clock stops after MaxTime ticks
MaxOps == 3         \* calls of authInit and of the handler in a run

-----------------------------------------------------------------------------
(* Inputs: headers, options, the authorization server                      *)

Bearer == Lit(<<"B", "e", "a", "r", "e", "r">>)
TokenABC == Lit(<<"a", ".", "b", ".", "c">>)
TokenXYZ == Lit(<<"x", ".", "y", ".", "z">>)
ScopeRead == Lit(<<"a", "p", "i", ".", "r", "e", "a", "d">>)
ScopeWrite == Lit(<<"a", "p", "i", ".", "w", "r", "i", "t", "e">>)

(* scheme, then a run of spaces, then token *)
Header(scheme, spaces, token) == Concat(Concat(scheme, Repeat(" ", spaces)), token)

WithAuthorization(value) == [headers |-> [authorization |-> Str(value)]]

(* "Bearer a.b." followed by x's, length characters in all *)
LongToken(length) == Concat(Lit(<<"a", ".", "b", ".">>), Repeat("x", length - 11))
LongHeader(length) == Header(Bearer, 1, LongToken(length))

(* The introspection result the authorization server holds for a token:    *)
(* a.b.c expires after one second, x.y.z long after the end of a run, and  *)
(* the result of any other token carries no client.                        *)
serverResult(token) ==
  IF token = TokenABC
  THEN [active |-> Bool(TRUE), client |-> Obj([id |-> Str(Lit(<<"c">>))]), exp |-> Num(1),
        scope |-> Arr(<<Str(ScopeRead)>>),
        user |-> Obj([number |-> Num(1), id |-> Str(Lit(<<"u">>))])]
  ELSE IF token = TokenXYZ
  THEN [active |-> Bool(TRUE), client |-> Obj([id |-> Str(Lit(<<"c">>))]), exp |-> Num(1000),
        scope |-> Arr(<<Str(ScopeWrite), Str(ScopeRead)>>)]
  ELSE [active |-> Bool(TRUE), exp |-> Num(1000), scope |-> Arr(<<Str(ScopeRead)>>)]

(* The object o without its property p *)
Without(o, p) == [q \in DOMAIN o \ {p} |-> o[q]]

Json(body) == [kind |-> "response", status |-> 200, parses |-> TRUE, json |-> body]
Response(status) == [kind |-> "response", status |-> status, parses |-> FALSE, json |-> Null]
NetworkError == [kind |-> "network", status |-> 0, parses |-> FALSE, json |-> Null]
Abort == [kind |-> "abort", status |-> 0, parses |-> FALSE, json |-> Null]

Text(chars) == Str(Lit(chars))

Credentials == [authURL |-> Text(<<"u">>), clientId |-> Text(<<"i">>),
                clientSecret |-> Text(<<"s">>)]

(* Credentials with the two cache settings *)
WithCache(seconds, cleanSeconds) ==
  [p \in DOMAIN Credentials \cup {"tokenCacheSeconds", "tokenCacheCleanSeconds"} |->
     IF p = "tokenCacheSeconds" THEN Num(seconds)
     ELSE IF p = "tokenCacheCleanSeconds" THEN Num(cleanSeconds)
     ELSE Credentials[p]]

-----------------------------------------------------------------------------
(* The state machine                                                       *)

Init ==
  /\ authURL = Null
  /\ clientId = Null
  /\ clientSecret = Null
  /\ tokenCacheSeconds = DefaultTokenCacheSeconds
  /\ tokenCacheCleanSeconds = DefaultTokenCacheCleanSeconds
  /\ tokenCache = <<>>
  /\ timers = EmptyBag
  /\ now = 0
  /\ pending = <<>>
  /\ last = Quiet("load")
  /\ nreq = 0
  /\ ninit = 0

(* exports.authInit(options) *)
AuthInit(options) ==
  /\ \E c \in {authInit(options)} :
       /\ authURL' = c.authURL
       /\ clientId' = c.clientId
       /\ clientSecret' = c.clientSecret
       /\ tokenCacheSeconds' = c.tokenCacheSeconds
       /\ tokenCacheCleanSeconds' = c.tokenCacheCleanSeconds
       /\ timers' = IF c.armed
                    THEN timers (+) SetToBag({dueTime(now, c.tokenCacheCleanSeconds)})
                    ELSE timers
       /\ last' = [Quiet("authInit") EXCEPT !.options = options,
                                            !.res.message = IF c.threw THEN "threw" ELSE ""]
  /\ ninit' = ninit + 1
  /\ UNCHANGED <<tokenCache, now, pending, nreq>>

(* Mutant: the handler schedules its next run only while the cache is      *)
(* enabled.                                                                *)
Sweep_whileEnabled(due) ==
  /\ BagIn(due, timers)
  /\ due <= now
  /\ tokenCache' = _removeExpiredCachedTokens(tokenCache, now)
  /\ timers' = IF tokenCacheSeconds # 0
               THEN (timers (-) SetToBag({due}))
                      (+) SetToBag({dueTime(now, tokenCacheCleanSeconds)})
               ELSE timers (-) SetToBag({due})
  /\ last' = SweepEvent(tokenCache)
  /\ UNCHANGED <<config, now, pending, nreq, ninit>>

(* Mutant: the handler does not schedule its next run. *)
Sweep_once(due) ==
  /\ BagIn(due, timers)
  /\ due <= now
  /\ tokenCache' = _removeExpiredCachedTokens(tokenCache, now)
  /\ timers' = timers (-) SetToBag({due})
  /\ last' = SweepEvent(tokenCache)
  /\ UNCHANGED <<config, now, pending, nreq, ninit>>

(* The timer handler _removeExpiredCachedTokens, run for a timer that is due *)
Sweep(due) ==
  /\ BagIn(due, timers)
  /\ due <= now
  /\ tokenCache' = _removeExpiredCachedTokens(tokenCache, now)
  /\ timers' = (timers (-) SetToBag({due}))
                 (+) SetToBag({dueTime(now, tokenCacheCleanSeconds)})
  /\ last' = SweepEvent(tokenCache)
  /\ UNCHANGED <<config, now, pending, nreq, ninit>>

(* The handler of requireAccessToken(options) called with req, up to the   *)
(* point where fetch() is pending, or to its end when no fetch() is made.  *)
Request(options, req) ==
  /\ \E p \in {chainToFetch(options, req)} :
       IF p.state = "pending"
       THEN /\ pending' = Append(pending, [chain |-> p.w.chain, req |-> p.w.req,
                                           calls |-> p.w.calls, stages |-> p.w.stages,
                                           fetchTimer |-> p.w.fetchTimer,
                                           options |-> options, startedAt |-> now])
            /\ tokenCache' = tokenCache
            /\ last' = Event("request", options, req, NoFetch, p, NoResponse)
       ELSE \E q \in {chainFromFetch(p)} :
            /\ pending' = pending
            /\ tokenCache' = q.w.tokenCache
            /\ last' = Event("request", options, req, NoFetch, q, respond(q))
  /\ nreq' = nreq + 1
  /\ UNCHANGED <<config, timers, now, ninit>>

(* The world the i-th pending request goes on in *)
resume(i) ==
  [chain |-> pending[i].chain, req |-> pending[i].req, tokenCache |-> tokenCache,
   calls |-> pending[i].calls, stages |-> pending[i].stages,
   fetchTimer |-> pending[i].fetchTimer]

(* The settlement of the fetch() of the i-th pending request with outcome, *)
(* and the rest of the request's chain.  The supervisory timer aborts the  *)
(* fetch() no sooner than FetchTimeoutSeconds after it was called.         *)
FetchSettled(i, outcome) ==
  /\ i \in 1..Len(pending)
  /\ outcome.kind = "abort" =>
       now >= plusSeconds(pending[i].startedAt, FetchTimeoutSeconds)
  /\ \E q \in {chainFromFetch(_validateTokenSettled(resume(i), outcome))} :
       /\ tokenCache' = q.w.tokenCache
       /\ pending' = splice(pending, i)
       /\ last' = Event("settled", pending[i].options, pending[i].req, outcome, q,
                        respond(q))
  /\ UNCHANGED <<config, timers, now, nreq, ninit>>

(* Time passes: ticks ticks *)
Tick(ticks) ==
  /\ now' = now + ticks
  /\ last' = Quiet("tick")
  /\ UNCHANGED <<config, tokenCache, timers, pending, nreq, ninit>>

-----------------------------------------------------------------------------
(* Spec: the cache over time.  Two tokens, requests without options, the   *)
(* cache enabled, disabled and re-configured, the clock advancing by ticks.*)

SpecInitOptions ==
  {Obj(Credentials), Obj(WithCache(1, 1)), Obj(WithCache(0, 1))}

SpecRequests ==
  { WithAuthorization(Header(Bearer, 1, TokenABC)),
    WithAuthorization(Header(Bearer, 1, TokenXYZ)),
    WithAuthorization(Header(Bearer, 1, Lit(<<"a", "b", "c">>))) }

SpecOutcomes(token) ==
  {Json(Obj(serverResult(token))), Json(Obj([active |-> Bool(FALSE)])), NetworkError}

Next ==
  \/ \E options \in SpecInitOptions : nreq + ninit < MaxOps /\ AuthInit(options)
  \/ \E due \in 0..MaxTime : Sweep(due)
  \/ \E req \in SpecRequests : nreq + ninit < MaxOps /\ Request(Undefined, req)
  \/ \E i \in 1..MaxOps : \E token \in {TokenABC, TokenXYZ} :
       \E outcome \in SpecOutcomes(token) :
         /\ i <= Len(pending) /\ pending[i].chain.accessToken = Str(token)
         /\ FetchSettled(i, outcome)
  \/ now < MaxTime /\ Tick(1)

Spec == Init /\ [][Next]_vars

-----------------------------------------------------------------------------
(* SpecInputs: the pipeline over its inputs.  The module is configured     *)
(* with the default cache settings, requests come one at a time with every *)
(* shape of header and of options, the authorization server answers in     *)
(* every way, and the clock jumps by the timeout of fetch().               *)

(* Authorization headers of the form the extraction accepts *)
GoodHeaders ==
  { Header(Bearer, 1, TokenABC),
    Header(Lit(<<"b", "e", "a", "r", "e", "r">>), 1, TokenABC),
    Header(Bearer, 1, TokenXYZ),
    LongHeader(MaxHeaderLength - 1) }

OtherHeaders ==
  { Header(Bearer, 1, Lit(<<"a", "b", "c">>)),
    Header(Bearer, 1, Lit(<<"a", ".", "b">>)),
    Header(Bearer, 1, Lit(<<"a", ".", "b", ".", "c", ".", "d">>)),
    Header(Lit(<<"B", "a", "s", "i", "c">>), 1, TokenABC),
    Header(Bearer, 2, TokenABC),
    Header(Bearer, 0, TokenABC),
    Header(Bearer, 1, <<>>),
    Header(Bearer, 0, <<>>),
    Header(Repeat(" ", 1), 0, Header(Bearer, 1, TokenABC)),
    Header(Header(Bearer, 1, TokenABC), 1, <<>>),
    <<>>,
    LongHeader(MaxHeaderLength),
    LongHeader(MaxHeaderLength + 1) }

GoodRequests == {WithAuthorization(h) : h \in GoodHeaders}

OtherRequests ==
  {WithAuthorization(h) : h \in OtherHeaders}
    \cup {EmptyObject, [headers |-> EmptyObject], [headers |-> [authorization |-> Arr(<<>>)]]}

(* The scope property of the argument of requireAccessToken *)
ScopeOptions ==
  { Str(ScopeWrite),
    Arr(<<Str(ScopeRead), Str(ScopeWrite)>>),
    Str(<<>>),
    Arr(<<>>),
    Arr(<<Num(5), Str(<<>>)>>),
    Num(5) }

Options == {Undefined, Obj(EmptyObject)} \cup {Obj([scope |-> sc]) : sc \in ScopeOptions}

(* Requests and options: a request that fails before the options are used  *)
(* comes with one value of the options.                                    *)
RequestInputs ==
  (Options \X GoodRequests) \cup ({Obj([scope |-> Str(ScopeWrite)])} \X OtherRequests)

(* The bodies a 200 response to the introspection of token may carry *)
Bodies(token) ==
  { Obj(serverResult(token)),
    Obj(Without(serverResult(token), "scope")),
    Obj([serverResult(token) EXCEPT !.scope = Arr(<<>>)]),
    Obj(Without(serverResult(token), "active")),
    Obj([active |-> Bool(FALSE)]),
    Null }

(* The ways fetch() for token may settle *)
Outcomes(token) ==
  {Json(body) : body \in Bodies(token)}
    \cup {Response(status) : status \in {200, 401, 403, 500}}
    \cup {NetworkError, Abort}

InputTokens == {TokenABC, TokenXYZ, LongToken(MaxHeaderLength - 1)}

NextInputs ==
  \/ ninit = 0 /\ nreq + ninit < MaxOps /\ AuthInit(Obj(Credentials))
  \/ \E input \in RequestInputs :
       pending = <<>> /\ nreq + ninit < MaxOps /\ Request(input[1], input[2])
  \/ \E token \in InputTokens : \E outcome \in Outcomes(token) :
       /\ pending # <<>> /\ pending[1].chain.accessToken = Str(token)
       /\ FetchSettled(1, outcome)
  \/ now = 0 /\ Tick(plusSeconds(0, FetchTimeoutSeconds))

SpecInputs == Init /\ [][NextInputs]_vars

-----------------------------------------------------------------------------
(* SpecNoCache: the module configured with tokenCacheSeconds = 0 only.     *)
(* authInit then schedules no sweep.                                       *)

NextNoCache ==
  \/ \E cleanSeconds \in {1, DefaultTokenCacheCleanSeconds} :
       nreq + ninit < MaxOps /\ AuthInit(Obj(WithCache(0, cleanSeconds)))
  \/ \E req \in SpecRequests : nreq + ninit < MaxOps /\ Request(Undefined, req)
  \/ \E i \in 1..MaxOps : \E token \in {TokenABC, TokenXYZ} :
       \E outcome \in SpecOutcomes(token) :
         /\ i <= Len(pending) /\ pending[i].chain.accessToken = Str(token)
         /\ FetchSettled(i, outcome)
  \/ now < MaxTime /\ Tick(1)

SpecNoCache == Init /\ [][NextNoCache]_vars

-----------------------------------------------------------------------------
(* Properties.  They are stated over last, the record of the latest step:  *)
(* an event e of a request carries the options and the request it was      *)
(* called with, the outcome of its fetch(), the promise its chain ended    *)
(* with and what was done to next and res.                                 *)

Handled(e) == e.op \in {"request", "settled"}
Finished(e) == Handled(e) /\ e.p.state # "pending"
Ran(e, stage) == \E i \in 1..Len(e.p.w.stages) : e.p.w.stages[i] = stage
NextCalled(e) == e.res.nextCalls > 0
Answered(e, status) == e.res.nextCalls = 0 /\ e.res.sends = 1 /\ e.res.status = status

(* The token extraction handed on, Undefined when it handed on none *)
TokenOf(e) == Get(e.p.w.chain, "accessToken")

(* The authorization server answered 200 with a body that parses *)
Fetched(e) == e.fetch.kind = "response" /\ e.fetch.status = 200 /\ e.fetch.parses

(* The request was answered from the cache, without fetch() *)
FromCache(e) == e.op = "request" /\ hasOwn(e.p.w.chain, "introspectWasCached")

(* The introspection result of the request, Undefined when it has none *)
ResultOf(e) ==
  IF Fetched(e) THEN e.fetch.json
  ELSE IF FromCache(e) THEN e.p.w.chain.introspect
  ELSE Undefined

ActiveWithClient(r) ==
  /\ r.t = "object"
  /\ hasOwn(r.v, "active") /\ r.v.active = Bool(TRUE)
  /\ hasOwn(r.v, "client")

(* The token of the request is valid *)
ValidToken(e) == Finished(e) /\ ActiveWithClient(ResultOf(e))

(* An entry of the cache is unexpired at time t: neither the exp of its    *)
(* result nor its cacheExpires has been reached.                           *)
Unexpired(entry, t) ==
  /\ t < plusSeconds(0, entry.introspect.v.exp.v)
  /\ t < entry.cacheExpires

(* C1: next() is called only for a request whose introspection result,     *)
(* fetched with status 200 or taken from the cache, has active === true    *)
(* and a client property; every other request is answered with an error    *)
(* and next() is not called.                                               *)
C1_NextOnlyIfActiveWithClient ==
  Finished(last) =>
    /\ NextCalled(last) => ActiveWithClient(ResultOf(last))
    /\ ~ActiveWithClient(ResultOf(last)) =>
         /\ ~NextCalled(last)
         /\ last.res.sends = 1
         /\ last.res.status \in {401, 403, 500}

(* A fetched result that is active but has no client is answered with 401 *)
C1_Witness ==
  /\ last.op = "settled" /\ Fetched(last)
  /\ last.fetch.json.t = "object"
  /\ Get(last.fetch.json.v, "active") = Bool(TRUE)
  /\ ~hasOwn(last.fetch.json.v, "client")
  /\ Answered(last, 401)

(* C2: with the cache enabled, a request whose fetched result is active    *)
(* with a client has made exactly one fetch() and appends exactly one      *)
(* entry to the cache; a request with the same token that follows at once, *)
(* the exp of the result not yet reached, is answered without fetch().     *)
C2_Step ==
  /\ (last'.op = "settled" /\ ActiveWithClient(ResultOf(last')) /\ tokenCacheSeconds > 0)
       => /\ last'.p.w.calls = 1
          /\ tokenCache' = Append(tokenCache,
                                  [token |-> TokenOf(last'),
                                   introspect |-> last'.fetch.json,
                                   cacheExpires |-> plusSeconds(now, tokenCacheSeconds)])
  /\ ( /\ last.op = "settled" /\ ActiveWithClient(ResultOf(last))
       /\ tokenCacheSeconds > 0
       /\ Greater(Get(last.fetch.json.v, "exp"), nowSeconds(now))
       /\ last'.op = "request" /\ nreq' = nreq + 1
       /\ TokenOf(last') = TokenOf(last) )
       => /\ last'.p.state = "fulfilled"
          /\ last'.p.w.calls = 0
          /\ NextCalled(last')
          /\ tokenCache' = tokenCache

C2_OneCallThenNone == [][C2_Step]_vars

(* A request answered from the one entry of the cache, without fetch() *)
C2_Witness ==
  /\ FromCache(last) /\ last.p.w.calls = 0 /\ NextCalled(last)
  /\ Len(tokenCache) = 1 /\ tokenCache[1].token = TokenOf(last)
  /\ nreq = 2

(* C3: the lookup of the cache returns no entry whose exp or whose         *)
(* cacheExpires has been reached, whichever comes first and whether or not *)
(* the sweep has removed the entry; a request is answered from the cache   *)
(* only when the cache holds an unexpired entry of its token.              *)
C3_LookupExcludesExpired ==
  /\ \A token \in {TokenABC, TokenXYZ} :
       \E i \in {findIndex(tokenCache, Str(token), now)} :
         i # 0 => tokenCache[i].token = Str(token) /\ Unexpired(tokenCache[i], now)
  /\ FromCache(last) =>
       \E i \in 1..Len(tokenCache) :
         /\ tokenCache[i].token = TokenOf(last)
         /\ tokenCache[i].introspect = last.p.w.chain.introspect
         /\ Unexpired(tokenCache[i], now)

(* The cache holds an entry of the token of the request whose exp is       *)
(* reached and whose cacheExpires is not: the request calls fetch().       *)
C3_Witness ==
  /\ last.op = "request" /\ last.p.state = "pending"
  /\ \E i \in 1..Len(tokenCache) :
       /\ tokenCache[i].token = TokenOf(last)
       /\ now >= plusSeconds(0, tokenCache[i].introspect.v.exp.v)
       /\ now < tokenCache[i].cacheExpires

(* C4: with tokenCacheSeconds = 0 the cache stays empty, the lookup finds  *)
(* nothing and every request that passes the extraction calls fetch().     *)
C4_NoCache ==
  tokenCacheSeconds = 0 =>
    /\ tokenCache = <<>>
    /\ \A token \in {TokenABC, TokenXYZ} : findIndex(tokenCache, Str(token), now) = 0
    /\ (Handled(last) /\ Ran(last, "findCachedToken")) =>
         /\ ~hasOwn(last.p.w.chain, "introspectWasCached")
         /\ last.p.w.calls = 1
         /\ last.op = "request" => last.p.state = "pending"

(* The second request of a token accepted before calls fetch() again *)
C4_Witness ==
  /\ tokenCacheSeconds = 0 /\ nreq = 2 /\ ninit = 1
  /\ last.op = "settled" /\ NextCalled(last) /\ last.p.w.calls = 1
  /\ tokenCache = <<>>

-----------------------------------------------------------------------------
(* Scopes                                                                  *)

(* The scope property of the options is a string or an array of strings *)
HasScopeParameter(options) ==
  /\ ~IsNullish(options) /\ hasOwn(options.v, "scope")
  /\ \/ IsString(options.v.scope)
     \/ /\ IsArray(options.v.scope)
        /\ \A i \in 1..Len(options.v.scope.v) : IsString(options.v.scope.v[i])

(* The scopes a scope parameter specifies *)
SpecifiedScopes(options) ==
  IF IsString(options.v.scope) THEN {options.v.scope.v}
  ELSE {options.v.scope.v[i].v : i \in 1..Len(options.v.scope.v)}

(* The required-scope set of the options: the non-empty strings of its     *)
(* scope property.                                                         *)
RequiredScopes(options) ==
  IF IsNullish(options) \/ ~hasOwn(options.v, "scope") THEN {}
  ELSE IF IsString(options.v.scope) THEN {options.v.scope.v} \ {<<>>}
  ELSE IF IsArray(options.v.scope)
       THEN {options.v.scope.v[i].v :
               i \in {j \in 1..Len(options.v.scope.v) : IsString(options.v.scope.v[j])}}
              \ {<<>>}
       ELSE {}

(* The scopes the introspection result r grants *)
GrantedScopes(r) ==
  IF hasOwn(r.v, "scope") /\ IsArray(r.v.scope)
  THEN {r.v.scope.v[i].v : i \in 1..Len(r.v.scope.v)}
  ELSE {}

(* C5: with a non-empty required-scope set and a valid token, next() is    *)
(* called if and only if a required scope is among the granted scopes of   *)
(* the token; otherwise the request is answered with 403.                  *)
C5_ScopeIntersection ==
  (ValidToken(last) /\ RequiredScopes(last.options) # {}) =>
    IF RequiredScopes(last.options) \cap GrantedScopes(ResultOf(last)) # {}
    THEN NextCalled(last)
    ELSE Answered(last, 403)

(* Granted [api.read], required [api.read, api.write]: accepted *)
C5_Witness ==
  /\ ValidToken(last) /\ NextCalled(last)
  /\ GrantedScopes(ResultOf(last)) = {ScopeRead}
  /\ RequiredScopes(last.options) = {ScopeRead, ScopeWrite}

-----------------------------------------------------------------------------
(* The Authorization header                                                *)

(* The number of characters ch in the string s *)
RECURSIVE CountChar(_, _)
CountChar(s, ch) ==
  IF s = <<>> THEN 0
  ELSE (IF Head(s).c = ch THEN Head(s).n ELSE 0) + CountChar(Tail(s), ch)

HasStringHeader(req) ==
  /\ hasOwn(req, "headers") /\ hasOwn(req.headers, "authorization")
  /\ IsString(req.headers.authorization)

(* The header h is a scheme word, one space and a token of three           *)
(* dot-separated segments; the scheme word is Bearer, letter for letter or *)
(* in any letter case.                                                     *)
BearerForm(h, anyCase) ==
  /\ CountChar(h, " ") = 1
  /\ \E k \in {i \in 1..Len(h) : h[i].c = " "} :
       /\ IF anyCase
          THEN toLowerCase(SubSeq(h, 1, k - 1)) = toLowerCase(Bearer)
          ELSE SubSeq(h, 1, k - 1) = Bearer
       /\ SubSeq(h, k + 1, Len(h)) # <<>>
       /\ CountChar(SubSeq(h, k + 1, Len(h)), ".") = 2

(* Extraction handed a token on to the cache check *)
Extracted(e) == Ran(e, "findCachedToken")

(* What C8 says of a request that came to the extraction with a headers    *)
(* object, for the one or the other reading of the scheme word.            *)
HeaderRule(e, anyCase) ==
  (e.op = "request" /\ Ran(e, "extractTokenFromHeader") /\ hasOwn(e.req, "headers")) =>
    /\ IF Extracted(e)
       THEN HasStringHeader(e.req) /\ BearerForm(e.req.headers.authorization.v, anyCase)
       ELSE Answered(e, 401) /\ e.p.w.calls = 0
    /\ e.req = WithAuthorization(Header(Bearer, 1, TokenABC)) => Extracted(e)

(* C8 as stated: extraction succeeds only for a header of the exact form   *)
(* "Bearer <token>", the token of three dot-separated segments; any other  *)
(* header is answered with 401, and "Bearer a.b.c" goes on to the cache    *)
(* check.                                                                  *)
C8_ExactBearer == HeaderRule(last, FALSE)

(* C8: the same, the scheme word being Bearer in any letter case. *)
C8_AnyCaseBearer == HeaderRule(last, TRUE)

(* "bearer a.b.c" goes on to the cache check *)
C8_Witness ==
  /\ last.op = "request" /\ Extracted(last)
  /\ last.req = WithAuthorization(Header(toLowerCase(Bearer), 1, TokenABC))

(* C9 as stated: a header longer than 4096 is answered with 401 before the *)
(* cache check and without fetch(), and a header of at most 4096 is not    *)
(* rejected for its length.                                                *)
C9_MaximumLength ==
  (last.op = "request" /\ Ran(last, "extractTokenFromHeader") /\ HasStringHeader(last.req)) =>
    IF StrLen(last.req.headers.authorization.v) > MaxHeaderLength
    THEN Answered(last, 401) /\ last.p.w.calls = 0 /\ ~Extracted(last)
    ELSE last.res.message # "Authorization header exceeds maximum length"

(* C10: every failure of the introspection (a status other than 200, a     *)
(* network failure, the abort by the timer, a body that does not parse)    *)
(* ends the request with 401, whatever the upstream status, and next() is  *)
(* not called.                                                             *)
C10_RemoteFailureIs401 ==
  (last.op = "settled" /\ ~Fetched(last)) => Answered(last, 401)

(* The authorization server answered 500 or 403: the request got 401 *)
C10_Witness ==
  /\ last.op = "settled" /\ last.fetch.kind = "response"
  /\ last.fetch.status \in {403, 500}
  /\ Answered(last, 401)

-----------------------------------------------------------------------------
(* The guard                                                               *)

(* The module configuration has not been set by authInit *)
NotConfigured == IsNull(authURL) \/ IsNull(clientId) \/ IsNull(clientSecret)

(* C11 as stated: a request handled before authInit set the configuration  *)
(* fails at the guard with status 500, not 401, and without fetch().       *)
C11_GuardAnswers500 ==
  (last.op = "request" /\ NotConfigured) =>
    /\ ~Ran(last, "extractTokenFromHeader")
    /\ last.p.w.calls = 0
    /\ Answered(last, 500)

(* The header of a challenge *)
ChallengeHeader == "WWW-Authenticate"

(* C12 as stated: every 401 and every 403 answer of the handler has a      *)
(* challenge header set on the response.                                   *)
C12_ChallengeHeaderSet ==
  (Finished(last) /\ last.res.sends = 1 /\ last.res.status \in {401, 403}) =>
    ChallengeHeader \in last.res.headers

-----------------------------------------------------------------------------
(* matchScope and requireScopeForApiRoute                                  *)

(* requiredScope is a string or an array: the argument check of both *)
validScope(requiredScope) ==
  ~IsNullish(requiredScope) /\ (IsString(requiredScope) \/ IsArray(requiredScope))

(* req.locals.tokenScope is there and is an array *)
hasTokenScope(req) ==
  /\ hasOwn(req, "locals") /\ hasOwn(req.locals, "tokenScope")
  /\ IsArray(req.locals.tokenScope)

(* Mutant: only the first required scope is looked for. *)
scopeFound_first(req, requiredScope) ==
  /\ Len(asArray(requiredScope)) > 0
  /\ includes(req.locals.tokenScope.v, asArray(requiredScope)[1])

(* requiredScope.forEach: some scopeString has tokenScope.indexOf >= 0 *)
scopeFound(req, requiredScope) ==
  \E i \in 1..Len(asArray(requiredScope)) :
    includes(req.locals.tokenScope.v, asArray(requiredScope)[i])

Threw == [threw |-> TRUE, value |-> FALSE]
Returned(value) == [threw |-> FALSE, value |-> value]

(* Mutant: every required scope must be in the token scope. *)
matchScope_all(req, requiredScope) ==
  IF ~validScope(requiredScope) THEN Threw
  ELSE IF hasTokenScope(req)
       THEN Returned(\A i \in 1..Len(asArray(requiredScope)) :
                       includes(req.locals.tokenScope.v, asArray(requiredScope)[i]))
       ELSE Threw

(* exports.matchScope: what the call returns, or that it threw *)
matchScope(req, requiredScope) ==
  IF ~validScope(requiredScope) THEN Threw
  ELSE IF hasTokenScope(req)
       THEN Returned(scopeFound(req, requiredScope))
       ELSE Threw

(* What a handler has done to next and res: next() called without or with  *)
(* an error, res.status(status).send(message).                             *)
Passed == [threw |-> FALSE, nextCalls |-> 1, nextErrors |-> 0, sends |-> 0, status |-> 0]
PassedError == [threw |-> FALSE, nextCalls |-> 1, nextErrors |-> 1, sends |-> 0, status |-> 0]
Sent(status) == [threw |-> FALSE, nextCalls |-> 0, nextErrors |-> 0, sends |-> 1,
                 status |-> status]
ThrewAtConstruction == [threw |-> TRUE, nextCalls |-> 0, nextErrors |-> 0, sends |-> 0,
                        status |-> 0]

(* Mutant: a scope of the wrong shape is taken for an empty list. *)
requireScopeForApiRoute_lenient(requiredScope, req) ==
  IF hasTokenScope(req)
  THEN IF validScope(requiredScope) /\ scopeFound(req, requiredScope)
       THEN Passed
       ELSE Sent(403)
  ELSE PassedError

(* Mutant: missing scope data is answered with 403. *)
requireScopeForApiRoute_closed(requiredScope, req) ==
  IF ~validScope(requiredScope) THEN ThrewAtConstruction
  ELSE IF hasTokenScope(req) /\ scopeFound(req, requiredScope)
       THEN Passed
       ELSE Sent(403)

(* exports.requireScopeForApiRoute(requiredScope) and the call of the      *)
(* handler it returns with req.                                            *)
requireScopeForApiRoute(requiredScope, req) ==
  IF ~validScope(requiredScope) THEN ThrewAtConstruction
  ELSE IF hasTokenScope(req)
       THEN IF scopeFound(req, requiredScope)
            THEN Passed
            ELSE Sent(403)
       ELSE PassedError

(* The record of a call of one of the two: the argument, the request and   *)
(* what came of it.                                                        *)
ScopeEvent(op, requiredScope, req, ret) ==
  [op |-> op, options |-> requiredScope, req |-> req, fetch |-> NoFetch,
   p |-> Waiting(EmptyObject), res |-> NoResponse, ret |-> ret]

(* matchScope(req, requiredScope) *)
MatchScope(req, requiredScope) ==
  /\ last' = ScopeEvent("matchScope", requiredScope, req, matchScope(req, requiredScope))
  /\ UNCHANGED <<config, tokenCache, timers, now, pending, nreq, ninit>>

(* requireScopeForApiRoute(requiredScope)(req, res, next) *)
ScopeGate(requiredScope, req) ==
  /\ last' = ScopeEvent("requireScopeForApiRoute", requiredScope, req,
                        requireScopeForApiRoute(requiredScope, req))
  /\ UNCHANGED <<config, tokenCache, timers, now, pending, nreq, ninit>>

(* SpecScope: the two scope functions over their arguments. *)

ScopeAdmin == Lit(<<"a", "p", "i", ".", "a", "d", "m", "i", "n">>)

(* Values of req.locals.tokenScope *)
TokenScopes ==
  { Arr(<<>>), Arr(<<Str(ScopeRead)>>), Arr(<<Str(ScopeWrite)>>),
    Arr(<<Str(ScopeRead), Str(ScopeWrite)>>), Arr(<<Str(ScopeAdmin)>>),
    Str(ScopeRead), Null }

ScopeRequests ==
  {EmptyObject, [locals |-> EmptyObject]}
    \cup {[locals |-> [tokenScope |-> tokenScope]] : tokenScope \in TokenScopes}

(* Values of requiredScope *)
RequiredScopeInputs ==
  { Undefined, Null, Num(5), Obj(EmptyObject),
    Str(ScopeRead), Str(ScopeWrite), Str(ScopeAdmin), Str(<<>>),
    Arr(<<>>), Arr(<<Str(ScopeRead)>>), Arr(<<Str(ScopeAdmin)>>),
    Arr(<<Str(ScopeRead), Str(ScopeWrite)>>), Arr(<<Str(ScopeWrite), Str(ScopeAdmin)>>),
    Arr(<<Num(5), Str(ScopeRead)>>) }

NextScope ==
  \/ \E req \in ScopeRequests : \E requiredScope \in RequiredScopeInputs :
       MatchScope(req, requiredScope)
  \/ \E req \in ScopeRequests : \E requiredScope \in RequiredScopeInputs :
       ScopeGate(requiredScope, req)

SpecScope == Init /\ [][NextScope]_vars

(* The required scopes of an argument: a string is a one-element set *)
RequiredStrings(requiredScope) ==
  IF IsString(requiredScope) THEN {requiredScope.v}
  ELSE {requiredScope.v[i].v :
          i \in {j \in 1..Len(requiredScope.v) : IsString(requiredScope.v[j])}}

(* The scopes of the array req.locals.tokenScope *)
TokenScopeStrings(req) ==
  {req.locals.tokenScope.v[i].v : i \in 1..Len(req.locals.tokenScope.v)}

(* The request has a tokenScope array, and so has populated scope data *)
Populated(req) ==
  /\ "locals" \in DOMAIN req /\ "tokenScope" \in DOMAIN req.locals
  /\ req.locals.tokenScope.t = "array"

(* The argument is a string or an array *)
StringOrArray(requiredScope) == requiredScope.t \in {"string", "array"}

(* C13: matchScope throws when requiredScope is null or neither a string   *)
(* nor an array, and when req has no tokenScope array; otherwise it        *)
(* returns true if and only if a required scope is in req.locals.tokenScope.*)
C13_MatchScope ==
  last.op = "matchScope" =>
    IF StringOrArray(last.options) /\ Populated(last.req)
    THEN /\ ~last.ret.threw
         /\ last.ret.value <=>
              RequiredStrings(last.options) \cap TokenScopeStrings(last.req) # {}
    ELSE last.ret.threw

(* matchScope(req, "api.admin") is false for the token scope [api.read] *)
C13_Witness ==
  /\ last.op = "matchScope"
  /\ last.options = Str(ScopeAdmin)
  /\ last.req = [locals |-> [tokenScope |-> Arr(<<Str(ScopeRead)>>)]]
  /\ last.ret = Returned(FALSE)

(* What requireScopeForApiRoute is to do, but for a request without scope  *)
(* data: throw at construction for an argument of the wrong shape, call    *)
(* next() without an error exactly when a required scope is in             *)
(* req.locals.tokenScope, answer 403 when none is.                         *)
GateRule(e) ==
  e.op = "requireScopeForApiRoute" =>
    /\ e.ret.threw <=> ~StringOrArray(e.options)
    /\ ~e.ret.threw =>
         /\ (e.ret.nextCalls = 1 /\ e.ret.nextErrors = 0) <=>
              /\ Populated(e.req)
              /\ RequiredStrings(e.options) \cap TokenScopeStrings(e.req) # {}
         /\ ( /\ Populated(e.req)
              /\ RequiredStrings(e.options) \cap TokenScopeStrings(e.req) = {} )
              => e.ret = Sent(403)

(* C14: requireScopeForApiRoute throws at construction when the scope is   *)
(* missing or neither a string nor an array; its handler calls next()      *)
(* without an error if and only if a required scope is in                  *)
(* req.locals.tokenScope, and answers 403 without next() when the scope    *)
(* data is there and no required scope matches.                            *)
C14_ScopeGate == GateRule(last)

(* Token scope [api.read] against required [api.write, api.admin]: 403 *)
C14_Witness ==
  /\ last.op = "requireScopeForApiRoute"
  /\ last.options = Arr(<<Str(ScopeWrite), Str(ScopeAdmin)>>)
  /\ last.req = [locals |-> [tokenScope |-> Arr(<<Str(ScopeRead)>>)]]
  /\ last.ret = Sent(403)

(* C15 as stated: a request without scope data (req.locals or              *)
(* req.locals.tokenScope absent or not an array) is answered with 403, as  *)
(* a request none of whose scopes matches is.                              *)
C15_MissingScopeDataIs403 ==
  (last.op = "requireScopeForApiRoute" /\ ~last.ret.threw /\ ~Populated(last.req)) =>
    last.ret = Sent(403)

(* C15: a request without scope data is not answered by the gate: next is  *)
(* called once, with an error, and nothing is sent; next() is never called *)
(* without an error for it.                                                *)
C15_MissingScopeDataIsNextError ==
  (last.op = "requireScopeForApiRoute" /\ ~last.ret.threw /\ ~Populated(last.req)) =>
    /\ last.ret.nextCalls = 1 /\ last.ret.nextErrors = 1
    /\ last.ret.sends = 0 /\ last.ret.status = 0

(* The gate of api.read called with a request that has no locals *)
C15_Witness ==
  /\ last.op = "requireScopeForApiRoute"
  /\ last.options = Str(ScopeRead)
  /\ last.req = EmptyObject
  /\ last.ret = PassedError

-----------------------------------------------------------------------------
(* SpecInit: authInit over its argument, called again and again, and the   *)
(* sweeps it schedules.                                                    *)

(* Credentials with one more property *)
With(o, p, v) == [q \in DOMAIN o \cup {p} |-> IF q = p THEN v ELSE o[q]]

(* Values that are no non-empty string *)
BadOptionValues == {Str(<<>>), Num(5), Null}

InitOptions ==
  {Undefined, Null, Obj(EmptyObject), Obj(Credentials),
   Obj([Credentials EXCEPT !.authURL = Text(<<"v">>)])}
    \cup {Obj(Without(Credentials, p)) : p \in DOMAIN Credentials}
    \cup {Obj([Credentials EXCEPT ![p] = bad]) :
            p \in DOMAIN Credentials, bad \in BadOptionValues}
    \cup {Obj(WithCache(seconds, cleanSeconds)) :
            seconds \in {-1, 0, 1}, cleanSeconds \in {1, 2}}
    \cup {Obj(With(Credentials, "tokenCacheSeconds", Num(seconds))) : seconds \in {0, 1}}
    \cup {Obj(With(Credentials, "tokenCacheCleanSeconds", Num(1))),
          Obj(With([Credentials EXCEPT !.clientId = Null], "tokenCacheSeconds", Num(1)))}

NextInit ==
  \/ \E options \in InitOptions : nreq + ninit < MaxOps /\ AuthInit(options)
  \/ \E due \in 0..MaxTime : Sweep(due)
  \/ now < MaxTime /\ Tick(1)

SpecInit == Init /\ [][NextInit]_vars

(* The options hold the three credentials as non-empty strings *)
ValidCredentials(options) ==
  /\ options.t = "object"
  /\ \A p \in {"authURL", "clientId", "clientSecret"} :
       /\ p \in DOMAIN options.v
       /\ options.v[p].t = "string" /\ options.v[p].v # <<>>

(* The number the options give for the setting p, and current otherwise *)
Given(options, p, current) ==
  IF p \in DOMAIN options.v THEN options.v[p].v ELSE current

InitThrew(e) == e.res.message = "threw"

(* The step is a call of authInit *)
InitCalled == last'.op = "authInit" /\ ninit' = ninit + 1

(* C16: authInit throws exactly when the options are absent or one of      *)
(* authURL, clientId, clientSecret is missing, not a string or empty;      *)
(* otherwise it sets the three and takes tokenCacheSeconds and             *)
(* tokenCacheCleanSeconds from the options when given and keeps them       *)
(* otherwise: at 60 and 300 when authInit has not been called before.      *)
C16_Step ==
  InitCalled =>
    /\ InitThrew(last') <=> ~ValidCredentials(last'.options)
    /\ ValidCredentials(last'.options) =>
         /\ authURL' = last'.options.v.authURL
         /\ clientId' = last'.options.v.clientId
         /\ clientSecret' = last'.options.v.clientSecret
         /\ tokenCacheSeconds' =
              Given(last'.options, "tokenCacheSeconds", tokenCacheSeconds)
         /\ tokenCacheCleanSeconds' =
              Given(last'.options, "tokenCacheCleanSeconds", tokenCacheCleanSeconds)
         /\ ninit = 0 =>
              /\ tokenCacheSeconds' = Given(last'.options, "tokenCacheSeconds", 60)
              /\ tokenCacheCleanSeconds' = Given(last'.options, "tokenCacheCleanSeconds", 300)

C16_AuthInit == [][C16_Step]_vars

(* The first call gave tokenCacheSeconds only: the sweep interval is 300 *)
C16_Witness ==
  /\ last.op = "authInit" /\ ~InitThrew(last) /\ ninit = 1
  /\ last.options = Obj(With(Credentials, "tokenCacheSeconds", Num(1)))
  /\ tokenCacheSeconds = 1 /\ tokenCacheCleanSeconds = 300
  /\ ~NotConfigured

(* C20: a call of authInit that leaves tokenCacheSeconds at 0 schedules no *)
(* sweep, and one that leaves it above 0 schedules one sweep, due          *)
(* tokenCacheCleanSeconds later.                                           *)
C20_Step ==
  (InitCalled /\ ~InitThrew(last')) =>
    /\ tokenCacheSeconds' = 0 => timers' = timers
    /\ tokenCacheSeconds' > 0 =>
         timers' = timers (+) SetToBag({now + tokenCacheCleanSeconds' * TicksPerSec})

C20_SweepOnlyWithCache == [][C20_Step]_vars

(* The cache disabled by the first call of authInit: no timer *)
C20_Witness ==
  /\ last.op = "authInit" /\ ~InitThrew(last) /\ ninit = 1
  /\ "tokenCacheSeconds" \in DOMAIN last.options.v
  /\ tokenCacheSeconds = 0
  /\ timers = EmptyBag

-----------------------------------------------------------------------------
(* The request context                                                     *)

(* What a request has attached to req.locals: the granted scopes, the user *)
(* number and the user id, Undefined where it attached none.               *)
ContextOf(e) ==
  [tokenScope |-> Get(e.p.w.req.locals, "tokenScope"),
   number |-> IF hasOwn(e.p.w.req.locals, "user")
              THEN Get(e.p.w.req.locals.user, "number") ELSE Undefined,
   id |-> IF hasOwn(e.p.w.req.locals, "user")
          THEN Get(e.p.w.req.locals.user, "id") ELSE Undefined]

(* The same three fields as the introspection result r holds them *)
FieldsOf(r) ==
  [tokenScope |-> Get(r.v, "scope"),
   number |-> IF hasOwn(r.v, "user") THEN Get(r.v.user.v, "number") ELSE Undefined,
   id |-> IF hasOwn(r.v, "user") THEN Get(r.v.user.v, "id") ELSE Undefined]

(* A request has fetched a valid result *)
FetchedValid(e) == e.op = "settled" /\ ValidToken(e)

(* A request that fetched a valid result attaches the fields of the result *)
(* and caches the result as it is; a request served from the cache         *)
(* attaches the fields of the unexpired entry it was served from.          *)
RoundTripState ==
  /\ FetchedValid(last) =>
       /\ ContextOf(last) = FieldsOf(last.fetch.json)
       /\ tokenCache # <<>>
       /\ tokenCache[Len(tokenCache)].token = TokenOf(last)
       /\ tokenCache[Len(tokenCache)].introspect = last.fetch.json
  /\ FromCache(last) =>
       \E i \in 1..Len(tokenCache) :
         /\ tokenCache[i].token = TokenOf(last)
         /\ Unexpired(tokenCache[i], now)
         /\ ContextOf(last) = FieldsOf(tokenCache[i].introspect)

(* A request served from the cache right after the request that fetched    *)
(* the result of its token attaches what that request attached.            *)
RoundTripStep ==
  ( /\ FetchedValid(last)
    /\ FromCache(last') /\ nreq' = nreq + 1
    /\ TokenOf(last') = TokenOf(last) )
    => ContextOf(last') = ContextOf(last)

(* C17: a request served from the cache within the TTL window attaches to  *)
(* the request context the same granted scopes, user number and user id as *)
(* the request that fetched the introspection result.                      *)
C17_RoundTrip == []RoundTripState /\ [][RoundTripStep]_vars

(* A request served from the cache has attached a scope, a user number and *)
(* a user id.                                                              *)
C17_Witness ==
  /\ FromCache(last) /\ NextCalled(last)
  /\ ContextOf(last) = [tokenScope |-> Arr(<<Str(ScopeRead)>>), number |-> Num(1),
                        id |-> Text(<<"u">>)]

-----------------------------------------------------------------------------
(* SpecTimeout: requests in flight at the same time against an             *)
(* authorization server that answers or does not, the supervisory timers   *)
(* and the clock.  The clock advances while a timer is waiting, and a      *)
(* timer that is due fires: the event loop runs a due timer, whatever      *)
(* else happens.                                                           *)

(* The supervisory timer of the i-th pending request fires *)
Timeout(i) == FetchSettled(i, Abort)

(* The timer of some pending request is not yet due *)
TimerWaiting ==
  \E i \in 1..Len(pending) :
    now < plusSeconds(pending[i].startedAt, FetchTimeoutSeconds)

(* The due time of the waiting timer that is due first *)
NextDue ==
  CHOOSE due \in {plusSeconds(pending[i].startedAt, FetchTimeoutSeconds) :
                    i \in 1..Len(pending)} :
    /\ now < due
    /\ \A i \in 1..Len(pending) :
         now < plusSeconds(pending[i].startedAt, FetchTimeoutSeconds)
           => due <= plusSeconds(pending[i].startedAt, FetchTimeoutSeconds)

(* Time passes while a timer is waiting, up to the moment it is due *)
TimerWait == TimerWaiting /\ Tick(NextDue - now)

NextTimeout ==
  \/ ninit = 0 /\ nreq + ninit < MaxOps /\ AuthInit(Obj(Credentials))
  \/ \E req \in SpecRequests : nreq + ninit < MaxOps /\ Request(Undefined, req)
  \/ \E i \in 1..MaxOps : \E token \in {TokenABC, TokenXYZ} :
       \E outcome \in SpecOutcomes(token) \cup {Response(500)} :
         /\ i <= Len(pending) /\ pending[i].chain.accessToken = Str(token)
         /\ FetchSettled(i, outcome)
  \/ \E i \in 1..MaxOps : Timeout(i)
  \/ TimerWait

SpecTimeout ==
  /\ Init /\ [][NextTimeout]_vars
  /\ WF_vars(TimerWait)
  /\ \A i \in 1..MaxOps : WF_vars(Timeout(i))

(* A settled fetch() has its timer cleared, and a fetch() the timer        *)
(* aborted ends its request with 401; a request answered from the cache    *)
(* has set no timer, and a pending one has its timer set.                  *)
TimerState ==
  /\ last.op = "settled" =>
       /\ last.p.w.fetchTimer = "cleared"
       /\ last.fetch.kind = "abort" => Answered(last, 401)
  /\ (last.op = "request" /\ last.p.state # "pending") => last.p.w.fetchTimer = "none"
  /\ \A i \in 1..Len(pending) : pending[i].fetchTimer = "set"

(* C18: every request that calls fetch() ends: when the authorization      *)
(* server has not answered by the time the timer fires, fetch() is aborted *)
(* and the request answered with 401; no request stays pending for ever,   *)
(* and the timer is cleared wherever fetch() settles.                      *)
C18_RequestsEnd ==
  /\ []TimerState
  /\ \A k \in 1..MaxOps : (Len(pending) >= k) ~> (Len(pending) < k)

(* The timer has aborted the fetch() of a request while another request    *)
(* was pending.                                                            *)
C18_Witness ==
  /\ last.op = "settled" /\ last.fetch.kind = "abort"
  /\ Answered(last, 401) /\ last.p.w.fetchTimer = "cleared"
  /\ pending # <<>>

(* C19: a request calls fetch() at most once, whatever comes of the call:  *)
(* a pending request has called it once, and a request whose call failed   *)
(* is rejected and answered, the call not repeated.                        *)
C19_NoRetry ==
  /\ \A i \in 1..Len(pending) : pending[i].calls = 1
  /\ Handled(last) => last.p.w.calls <= 1
  /\ (last.op = "settled" /\ ~Fetched(last)) =>
       /\ last.p.state = "rejected" /\ last.p.w.calls = 1
       /\ ~NextCalled(last) /\ last.res.sends = 1
       /\ pending = <<>>

(* A network failure has ended the request after one call *)
C19_Witness ==
  /\ last.op = "settled" /\ last.fetch.kind = "network"
  /\ last.p.state = "rejected" /\ last.p.w.calls = 1
  /\ pending = <<>>

-----------------------------------------------------------------------------
(* SpecSweep: the cache and its sweep.  The cache enabled with a TTL of one *)
(* or of two seconds and a sweep every second, requests of two tokens that *)
(* the authorization server accepts, one of them expiring within the run,  *)
(* the clock advancing by ticks.                                           *)

MaxCached == 4      \* requests in a run of SpecSweep

NextSweep ==
  \/ \E seconds \in {1, 2} : ninit = 0 /\ AuthInit(Obj(WithCache(seconds, 1)))
  \/ \E due \in 0..MaxTime : Sweep(due)
  \/ \E req \in {WithAuthorization(Header(Bearer, 1, TokenABC)),
                 WithAuthorization(Header(Bearer, 1, TokenXYZ))} :
       ninit = 1 /\ pending = <<>> /\ nreq < MaxCached /\ Request(Undefined, req)
  \/ \E token \in {TokenABC, TokenXYZ} :
       /\ pending # <<>> /\ pending[1].chain.accessToken = Str(token)
       /\ FetchSettled(1, Json(Obj(serverResult(token))))
  \/ now < MaxTime /\ Tick(1)

SpecSweep == Init /\ [][NextSweep]_vars

(* The exp of the result of an entry, or its cacheExpires, has passed at   *)
(* time t: the current second is after exp, or t is after cacheExpires.    *)
HasPassed(entry, t) ==
  \/ /\ "exp" \in DOMAIN entry.introspect.v
     /\ entry.introspect.v.exp.v < t \div TicksPerSec
  \/ entry.cacheExpires < t

(* The entries of cache that survive a sweep at time t, in their order *)
Survivors(cache, t) == SelectSeq(cache, LAMBDA entry : ~HasPassed(entry, t))

(* The step is a run of the sweep *)
Swept == last'.op = "sweep"

C21_Step ==
  Swept =>
    /\ tokenCache' = Survivors(tokenCache, now)
    /\ \A i \in 1..Len(tokenCache') : ~HasPassed(tokenCache'[i], now)
    /\ BagCardinality(timers') = BagCardinality(timers)
    /\ \E due \in BagToSet(timers) :
         /\ due <= now
         /\ timers' = (timers (-) SetToBag({due}))
                        (+) SetToBag({now + tokenCacheCleanSeconds * TicksPerSec})

(* C21: a run of the sweep leaves in the cache the entries of which        *)
(* neither exp nor cacheExpires has passed, all of them and in their       *)
(* order, and no other, however the expired entries lie in the cache; the  *)
(* timer that fired is replaced by one timer, due tokenCacheCleanSeconds   *)
(* later.                                                                  *)
C21_Sweep == [][C21_Step]_vars

(* A sweep has removed two expired entries that lay side by side, ahead of *)
(* an entry that stays.                                                    *)
C21_Witness ==
  /\ last.op = "sweep"
  /\ Len(last.before) = 3 /\ Len(tokenCache) = 1
  /\ HasPassed(last.before[1], now) /\ HasPassed(last.before[2], now)
  /\ tokenCache[1] = last.before[3]

-----------------------------------------------------------------------------
(* SpecRecur: the sweep over the life of the process.  The cache is        *)
(* enabled with a TTL of one second or disabled, the sweep interval is one *)
(* second.  The clock runs to Horizon, and requests are taken as long as   *)
(* an entry they insert expires a sweep interval before Horizon, so that   *)
(* the run sees the sweep that is to remove it.  Time passes, and a timer  *)
(* that is due fires: the event loop runs a due timer, whatever else       *)
(* happens.                                                                *)

MaxSeconds == 4     \* the seconds the clock of SpecRecur runs

Horizon == plusSeconds(0, MaxSeconds)

(* An entry inserted now is due for removal before the clock stops *)
InWindow ==
  plusSeconds(now, tokenCacheSeconds + tokenCacheCleanSeconds) <= Horizon

(* A sweep timer is waiting and is due before the clock stops *)
SweepWaiting == \E due \in BagToSet(timers) : now < due /\ due <= Horizon

(* The due time of the waiting sweep timer that is due first *)
NextSweepDue ==
  CHOOSE due \in BagToSet(timers) :
    /\ now < due
    /\ \A other \in BagToSet(timers) : now < other => due <= other

(* Time passes while a sweep timer is waiting, up to the moment it is due *)
SweepWait == SweepWaiting /\ Tick(NextSweepDue - now)

NextRecur ==
  \/ \E seconds \in {0, 1} :
       nreq + ninit < MaxOps /\ AuthInit(Obj(WithCache(seconds, 1)))
  \/ \E due \in 0..Horizon : Sweep(due)
  \/ \E req \in {WithAuthorization(Header(Bearer, 1, TokenABC)),
                 WithAuthorization(Header(Bearer, 1, TokenXYZ))} :
       InWindow /\ nreq + ninit < MaxOps /\ Request(Undefined, req)
  \/ \E i \in 1..MaxOps : \E token \in {TokenABC, TokenXYZ} :
       \E outcome \in {Json(Obj(serverResult(token))), NetworkError} :
         /\ InWindow
         /\ i <= Len(pending) /\ pending[i].chain.accessToken = Str(token)
         /\ FetchSettled(i, outcome)
  \/ SweepWait

SpecRecur ==
  /\ Init /\ [][NextRecur]_vars
  /\ WF_vars(SweepWait)
  /\ \A due \in 0..Horizon : WF_vars(Sweep(due))

(* The cache holds an entry that expires at expires *)
Cached(expires) == \E i \in 1..Len(tokenCache) : tokenCache[i].cacheExpires = expires

(* A sweep is scheduled whenever the cache holds an entry *)
SweepScheduled == tokenCache # <<>> => timers # EmptyBag

(* A run of the sweep leaves as many timers as it found, and only a run of *)
(* the sweep removes an entry.                                             *)
RecurStep ==
  /\ Swept => BagCardinality(timers') = BagCardinality(timers) /\ timers' # EmptyBag
  /\ Len(tokenCache') < Len(tokenCache) => Swept

(* C22: a sweep, once scheduled, is scheduled again by each of its runs,   *)
(* and it is scheduled whenever the cache holds an entry; so every entry   *)
(* inserted into the cache is removed from it in the end, by a sweep that  *)
(* runs after its expiry.                                                  *)
C22_SweepRecurs ==
  /\ []SweepScheduled
  /\ [][RecurStep]_vars
  /\ \A expires \in 0..Horizon : Cached(expires) ~> ~Cached(expires)

(* The second run of the sweep or a later one has emptied the cache, the   *)
(* cache disabled since the entry was inserted.                            *)
C22_Witness ==
  /\ last.op = "sweep" /\ last.before # <<>> /\ tokenCache = <<>>
  /\ now >= plusSeconds(0, 2 * tokenCacheCleanSeconds)
  /\ tokenCacheSeconds = 0

-----------------------------------------------------------------------------
(* The cache write                                                         *)

(* The request has fetched its result and has come to the cache write *)
FreshAtCacheWrite(e) == e.op = "settled" /\ Ran(e, "saveTokenToCache")

C23_Step ==
  Handled(last') =>
    IF FreshAtCacheWrite(last') /\ tokenCacheSeconds > 0
    THEN tokenCache' = Append(tokenCache,
                              [token |-> TokenOf(last'),
                               introspect |-> last'.fetch.json,
                               cacheExpires |-> now + tokenCacheSeconds * TicksPerSec])
    ELSE tokenCache' = tokenCache

(* C23: a request that comes to the cache write with a result it fetched,  *)
(* the cache enabled, appends one entry of its token and its result that   *)
(* expires tokenCacheSeconds after the insertion; a request that was       *)
(* served from the cache, and any request while the cache is disabled,     *)
(* leaves the cache as it was.                                             *)
C23_CacheWrite == [][C23_Step]_vars

(* A request served from the cache has passed the cache write and the      *)
(* cache holds the one entry it held.                                      *)
C23_Witness ==
  /\ FromCache(last) /\ Ran(last, "saveTokenToCache")
  /\ Len(tokenCache) = 1 /\ last.p.w.tokenCache = tokenCache
  /\ tokenCache[1].cacheExpires <= plusSeconds(now, tokenCacheSeconds)

-----------------------------------------------------------------------------
(* The order of the stages                                                 *)

(* The stages in the order of the chain of requireAccessToken *)
StageOrder ==
  <<"initChainObject", "extractTokenFromHeader", "findCachedToken", "validateToken",
    "checkTokenActive", "saveTokenToCache", "addTokenScopeToReqObject",
    "addUserIdToReqObject", "restrictByScope">>

(* The number of stages the request has entered *)
StagesRun(e) == Len(e.p.w.stages)

(* The request was rejected by the stage it entered last *)
FailedAt(e, stage) ==
  /\ e.p.state = "rejected" /\ StagesRun(e) > 0
  /\ e.p.w.stages[StagesRun(e)] = stage

(* The stages a request has entered are the first stages of the chain, in  *)
(* its order, up to its end or to the stage that rejected it; a request    *)
(* rejected by the extraction has looked up nothing and fetched nothing,   *)
(* and one rejected before the cache write has left req as it came.        *)
StagesState ==
  Handled(last) =>
    /\ StagesRun(last) <= Len(StageOrder)
    /\ last.p.w.stages = SubSeq(StageOrder, 1, StagesRun(last))
    /\ last.p.state = "fulfilled" => StagesRun(last) = Len(StageOrder)
    /\ last.p.state = "pending" => last.p.w.stages[StagesRun(last)] = "validateToken"
    /\ FailedAt(last, "extractTokenFromHeader") =>
         /\ ~Ran(last, "findCachedToken") /\ ~Ran(last, "validateToken")
         /\ last.p.w.calls = 0
         /\ ~hasOwn(last.p.w.chain, "introspect") \/ IsNull(last.p.w.chain.introspect)
    /\ (last.op = "settled" /\ ~ActiveWithClient(ResultOf(last))) =>
         /\ \/ ~Fetched(last) /\ FailedAt(last, "validateToken")
            \/ Fetched(last) /\ FailedAt(last, "checkTokenActive")
         /\ ~Ran(last, "saveTokenToCache")
         /\ ~Ran(last, "addTokenScopeToReqObject") /\ ~Ran(last, "addUserIdToReqObject")
         /\ last.p.w.req = last.req /\ ~hasOwn(last.p.w.req, "locals")
    /\ (last.p.state = "rejected" /\ ~Ran(last, "addTokenScopeToReqObject")) =>
         last.p.w.req = last.req

(* A request that was rejected before the cache write leaves the cache as  *)
(* it was.                                                                 *)
StagesStep ==
  (Handled(last') /\ last'.p.state = "rejected" /\ ~Ran(last', "saveTokenToCache"))
    => tokenCache' = tokenCache

(* C24: the stages run in the order guard, extract, cache check, validate, *)
(* active check, cache write, context enrichment, scope enforcement, and   *)
(* the first stage that fails is the last that runs: after a failure of    *)
(* the extraction there is no cache lookup and no fetch(), after a failed  *)
(* fetch() or an inactive result no entry is inserted and req.locals is    *)
(* not touched.                                                            *)
C24_StagesInOrder == []StagesState /\ [][StagesStep]_vars

(* An inactive result: the chain ended at the active check *)
C24_Witness ==
  /\ last.op = "settled" /\ Fetched(last)
  /\ last.fetch.json = Obj([active |-> Bool(FALSE)])
  /\ FailedAt(last, "checkTokenActive") /\ StagesRun(last) = 5
  /\ last.p.w.req = last.req

-----------------------------------------------------------------------------
(* The context enrichment                                                  *)

(* The granted scopes of the result r as the request context is to hold    *)
(* them: an empty sequence when r has no scope.                            *)
ScopeOrEmpty(r) == IF "scope" \in DOMAIN r.v THEN r.v.scope ELSE Arr(<<>>)

(* C25 as stated: a request with a valid token has req.locals.tokenScope   *)
(* set to the granted scopes of its result, to an empty sequence when the  *)
(* result has no scope, and req.locals.user.number and req.locals.user.id  *)
(* set exactly when the result carries them.                               *)
C25_TokenScopeAlwaysSet ==
  ValidToken(last) =>
    /\ ContextOf(last).tokenScope = ScopeOrEmpty(ResultOf(last))
    /\ ContextOf(last).number = FieldsOf(ResultOf(last)).number
    /\ ContextOf(last).id = FieldsOf(ResultOf(last)).id

-----------------------------------------------------------------------------
(* The status of an error response                                         *)

(* The request was answered with an error *)
Refused(e) == Finished(e) /\ e.res.sends = 1

(* The request came to the extraction and its token was not accepted: the  *)
(* header is missing or malformed, the introspection failed, or the result *)
(* is not that of an active token.                                         *)
TokenNotAccepted(e) ==
  /\ Finished(e) /\ Ran(e, "extractTokenFromHeader") /\ "headers" \in DOMAIN e.req
  /\ ~ActiveWithClient(ResultOf(e))

(* C26: 403 is the answer of the scope enforcement only, and so of         *)
(* requests with a valid token only; a request whose token is missing,     *)
(* malformed, inactive or could not be verified is answered with 401,      *)
(* whatever scope is required; an error is answered with 401, 403 or 500,  *)
(* and with 500 only for an internal fault, a request without headers.     *)
C26_StatusClasses ==
  /\ (Refused(last) /\ last.res.status = 403) =>
       /\ FailedAt(last, "restrictByScope")
       /\ ValidToken(last)
       /\ RequiredScopes(last.options) # {}
  /\ TokenNotAccepted(last) => Answered(last, 401)
  /\ Refused(last) => last.res.status \in {401, 403, 500}
  /\ (Refused(last) /\ last.res.status = 500) =>
       /\ FailedAt(last, "extractTokenFromHeader")
       /\ "headers" \notin DOMAIN last.req

(* An inactive token under a required scope is answered with 401 *)
C26_Witness ==
  /\ last.op = "settled" /\ Fetched(last)
  /\ last.fetch.json = Obj([active |-> Bool(FALSE)])
  /\ last.options = Obj([scope |-> Str(ScopeWrite)])
  /\ Answered(last, 401)

-----------------------------------------------------------------------------
(* SpecCompare: safeCompare over pairs of strings, and the cache lookup    *)
(* for a token that differs from a cached token by a trailing zero byte.   *)

(* The record of a call of safeCompare: its arguments and what it returned *)
CompareEvent(token1, token2, ret) ==
  [op |-> "safeCompare", options |-> Null, req |-> EmptyObject, fetch |-> NoFetch,
   p |-> Waiting(EmptyObject), res |-> NoResponse,
   token1 |-> token1, token2 |-> token2, ret |-> ret]

(* safeCompare(token1, token2) *)
SafeCompare(token1, token2) ==
  /\ last' = CompareEvent(token1, token2, safeCompare(token1, token2))
  /\ UNCHANGED <<config, tokenCache, timers, now, pending, nreq, ninit>>

(* a.b.c followed by a zero byte *)
TokenABCNul == Concat(TokenABC, Repeat(NUL, 1))

CompareTokens ==
  { <<>>, Lit(<<"a">>), Lit(<<"a", ".", "b">>), TokenABC, TokenXYZ,
    Lit(<<"a", ".", "b", ".", "d">>), Lit(<<"a", ".", "b", ".", "c", "c">>),
    TokenABCNul, Concat(TokenABC, Repeat(NUL, 2)), Repeat(NUL, 1),
    Concat(Repeat(NUL, 1), TokenABC), LongToken(MaxHeaderLength - 1) }

NextCompare ==
  \/ \E token1 \in CompareTokens : \E token2 \in CompareTokens :
       SafeCompare(token1, token2)
  \/ ninit = 0 /\ AuthInit(Obj(Credentials))
  \/ \E token \in {TokenABC, TokenABCNul} :
       pending = <<>> /\ nreq + ninit < MaxOps
         /\ Request(Undefined, WithAuthorization(Header(Bearer, 1, token)))
  \/ \E outcome \in {Json(Obj(serverResult(TokenABC))), Json(Obj([active |-> Bool(FALSE)]))} :
       pending # <<>> /\ FetchSettled(1, outcome)

SpecCompare == Init /\ [][NextCompare]_vars

(* C27 as stated: safeCompare(a, b) is true if and only if a and b are the *)
(* same string, whatever their lengths and their trailing zero bytes, and  *)
(* a request is served from the cache only when the cache holds an entry   *)
(* of the very token string it presented.                                  *)
C27_CompareIsEquality ==
  /\ last.op = "safeCompare" => (last.ret <=> last.token1 = last.token2)
  /\ FromCache(last) =>
       \E i \in 1..Len(tokenCache) :
         /\ tokenCache[i].token = TokenOf(last)
         /\ tokenCache[i].introspect = last.p.w.chain.introspect

-----------------------------------------------------------------------------
(* SpecGate: the scope stage of requireAccessToken({scope: S}) and, on the *)
(* request it has handled, requireScopeForApiRoute(S) and matchScope(req,  *)
(* S).  One token, every shape of S, results with and without scopes.      *)

GateOptions ==
  {Obj([scope |-> sc]) : sc \in ScopeOptions \cup {Arr(<<Str(ScopeWrite), Str(ScopeRead)>>),
                                                   Str(ScopeRead)}}

(* The bodies of the introspection of a.b.c: its scope an array, missing,  *)
(* empty and a single string.                                              *)
GateBodies ==
  { Obj(serverResult(TokenABC)),
    Obj(Without(serverResult(TokenABC), "scope")),
    Obj([serverResult(TokenABC) EXCEPT !.scope = Arr(<<>>)]),
    Obj([serverResult(TokenABC) EXCEPT !.scope = Str(ScopeRead)]),
    Obj([active |-> Bool(FALSE)]) }

(* The latest step is a request with a valid token, handled to its end     *)
(* under the scope S, a string or an array.                                *)
HandledUnderScope ==
  /\ ValidToken(last) /\ Ran(last, "restrictByScope")
  /\ ~IsNullish(last.options) /\ hasOwn(last.options.v, "scope")
  /\ validScope(last.options.v.scope)

NextGate ==
  \/ ninit = 0 /\ AuthInit(Obj(Credentials))
  \/ \E options \in GateOptions :
       /\ pending = <<>> /\ nreq + ninit < MaxOps
       /\ Request(options, WithAuthorization(Header(Bearer, 1, TokenABC)))
  \/ \E body \in GateBodies : pending # <<>> /\ FetchSettled(1, Json(body))
  \/ HandledUnderScope /\ ScopeGate(last.options.v.scope, last.p.w.req)
  \/ HandledUnderScope /\ MatchScope(last.p.w.req, last.options.v.scope)

SpecGate == Init /\ [][NextGate]_vars

(* The step applies the gate, or matchScope, to the request the latest     *)
(* step has handled, with the scope it was handled under.                  *)
GateApplied ==
  /\ HandledUnderScope
  /\ last'.op \in {"requireScopeForApiRoute", "matchScope"}
  /\ last'.req = last.p.w.req /\ last'.options = last.options.v.scope

(* The gate, or matchScope, accepts *)
Accepts(e) ==
  IF e.op = "matchScope" THEN e.ret = Returned(TRUE) ELSE e.ret = Passed

(* S is a non-empty string or a non-empty array of non-empty strings *)
NonEmptyStrings(requiredScope) ==
  \/ IsString(requiredScope) /\ requiredScope.v # <<>>
  \/ /\ IsArray(requiredScope) /\ requiredScope.v # <<>>
     /\ \A i \in 1..Len(requiredScope.v) :
          IsString(requiredScope.v[i]) /\ requiredScope.v[i].v # <<>>

(* The granted scopes of the result r are an array, or r has none *)
ScopesAsArray(r) == "scope" \in DOMAIN r.v => r.v.scope.t = "array"

C29_StepAnyScope == GateApplied => (NextCalled(last) <=> Accepts(last'))

C29_Step ==
  (GateApplied /\ ScopesAsArray(ResultOf(last))) =>
    IF NonEmptyStrings(last.options.v.scope)
    THEN NextCalled(last) <=> Accepts(last')
    ELSE RequiredScopes(last.options) = {} => (NextCalled(last) /\ ~Accepts(last'))

-----------------------------------------------------------------------------
(* The contents of the cache                                               *)

(* Every entry holds the token it was fetched for and a result with        *)
(* active === true and a client.                                           *)
CacheHoldsActive ==
  \A i \in 1..Len(tokenCache) :
    /\ ActiveWithClient(tokenCache[i].introspect)
    /\ IsString(tokenCache[i].token)

(* A request whose fetch() failed, or whose result is not of that kind,    *)
(* inserts nothing.                                                        *)
NoInsertStep ==
  (last'.op = "settled" /\ ~ActiveWithClient(ResultOf(last'))) => tokenCache' = tokenCache

(* C30: in every reachable state every entry of the cache holds a result   *)
(* with active === true and a client property; a result that is inactive   *)
(* or has no client, and a failed fetch(), insert nothing.                 *)
C30_CacheHoldsActiveOnly == []CacheHoldsActive /\ [][NoInsertStep]_vars

(* A result without a client was refused and has left no entry, the cache  *)
(* holding the entry of another token.                                     *)
C30_Witness ==
  /\ last.op = "settled" /\ Fetched(last)
  /\ last.fetch.json.t = "object" /\ "client" \notin DOMAIN last.fetch.json.v
  /\ Get(last.fetch.json.v, "active") = Bool(TRUE)
  /\ Len(tokenCache) = 1 /\ tokenCache[1].token # TokenOf(last)

-----------------------------------------------------------------------------
(* The sweep and the lookup at the same instant                            *)

(* The entries of a cache, as a set *)
Entries(cache) == {cache[i] : i \in 1..Len(cache)}

(* A lookup of the token of the entry at time t would return the entry *)
LookupReturns(entry, t) == cacheMatch(entry, entry.token, t)

(* exp of the entry is the current second, cacheExpires is the current time *)
ExpIsNow(entry, t) == entry.introspect.v.exp.v = nowSeconds(t)
CacheExpiresIsNow(entry, t) == entry.cacheExpires = t

(* Neither exp nor cacheExpires of the entry lies before the current time *)
NonePassed(entry, t) ==
  /\ entry.introspect.v.exp.v >= nowSeconds(t)
  /\ entry.cacheExpires >= t

(* A run of the sweep removes no entry the lookup would return, and leaves *)
(* no entry of which exp or cacheExpires lies before the current time.     *)
SweepAgrees ==
  /\ \A entry \in Entries(tokenCache) \ Entries(tokenCache') :
       ~LookupReturns(entry, now)
  /\ \A entry \in Entries(tokenCache') : NonePassed(entry, now)

C31_StepAnyBoundary ==
  Swept =>
    /\ SweepAgrees
    /\ \A entry \in Entries(tokenCache) :
         (ExpIsNow(entry, now) \/ CacheExpiresIsNow(entry, now)) =>
           /\ ~LookupReturns(entry, now)
           /\ entry \in Entries(tokenCache')

(* C31 as stated: the sweep removes no entry that a lookup at the same     *)
(* instant would return, every entry it leaves has exp >= now and          *)
(* cacheExpires >= now, and an entry whose exp or cacheExpires equals now  *)
(* is neither returned by the lookup nor removed by the sweep.             *)
C31_AgreeAnyBoundary == [][C31_StepAnyBoundary]_vars

C31_Step ==
  Swept =>
    /\ SweepAgrees
    /\ \A entry \in Entries(tokenCache) :
         ((ExpIsNow(entry, now) \/ CacheExpiresIsNow(entry, now))
            /\ NonePassed(entry, now)) =>
           /\ ~LookupReturns(entry, now)
           /\ entry \in Entries(tokenCache')

(* C31: the sweep removes no entry that a lookup at the same instant would *)
(* return, every entry it leaves has exp >= now (in whole seconds) and     *)
(* cacheExpires >= now, and an entry of which one of exp and cacheExpires  *)
(* equals now and the other has not passed is neither returned by the      *)
(* lookup nor removed by the sweep.                                        *)
C31_AgreeAtBoundary == [][C31_Step]_vars

(* A sweep has removed an entry and left one whose cacheExpires is the     *)
(* current time, which the lookup does not return.                         *)
C31_Witness ==
  /\ last.op = "sweep"
  /\ Len(tokenCache) < Len(last.before)
  /\ \E entry \in Entries(tokenCache) :
       /\ CacheExpiresIsNow(entry, now)
       /\ ~LookupReturns(entry, now)
       /\ findIndex(tokenCache, entry.token, now) = 0

-----------------------------------------------------------------------------
(* SpecFlight: requests in flight at the same time.  The cache is enabled  *)
(* with a TTL of one second, requests of two tokens come while others are  *)
(* pending, and the authorization server answers each with the result of   *)
(* the token or with the same result granting no scope.                    *)

MaxFlight == 3      \* requests in a run of SpecFlight

(* The result of token with an empty scope list *)
NoScopes(token) == [serverResult(token) EXCEPT !.scope = Arr(<<>>)]

(* The answers of the authorization server for token: the result of a.b.c, *)
(* and the result of x.y.z with its scopes or with none.                   *)
FlightOutcomes(token) ==
  IF token = TokenABC THEN {Json(Obj(serverResult(token)))}
  ELSE {Json(Obj(serverResult(token))), Json(Obj(NoScopes(token)))}

NextFlight ==
  \/ ninit = 0 /\ AuthInit(Obj(WithCache(1, 1)))
  \/ \E req \in {WithAuthorization(Header(Bearer, 1, TokenABC)),
                 WithAuthorization(Header(Bearer, 1, TokenXYZ))} :
       ninit = 1 /\ nreq < MaxFlight /\ Request(Undefined, req)
  \/ \E i \in 1..MaxFlight : \E token \in {TokenABC, TokenXYZ} :
       \E outcome \in FlightOutcomes(token) :
         /\ i <= Len(pending) /\ pending[i].chain.accessToken = Str(token)
         /\ FetchSettled(i, outcome)
  \/ now < MaxTime /\ Tick(1)

SpecFlight == Init /\ [][NextFlight]_vars

(* The entry of cache is one of token that is still valid at time t *)
StillValid(entry, token, t) ==
  /\ entry.token = token
  /\ entry.introspect.v.active = Bool(TRUE)
  /\ entry.introspect.v.exp.v > t \div TicksPerSec
  /\ entry.cacheExpires > t

(* The indices of the entries of token that are still valid at time t *)
ValidIndices(cache, token, t) ==
  {i \in 1..Len(cache) : StillValid(cache[i], token, t)}

(* The pending requests of token *)
InFlight(token) == {i \in 1..Len(pending) : pending[i].chain.accessToken = token}

C32_Step ==
  /\ (last'.op = "request" /\ ValidIndices(tokenCache, TokenOf(last'), now) = {}) =>
       /\ Len(pending') = Len(pending) + 1
       /\ pending'[Len(pending')].calls = 1
       /\ pending'[Len(pending')].chain.accessToken = TokenOf(last')
       /\ tokenCache' = tokenCache
  /\ (last'.op = "settled" /\ ActiveWithClient(ResultOf(last'))) =>
       /\ last'.p.w.calls = 1
       /\ tokenCache' = Append(tokenCache,
                               [token |-> TokenOf(last'),
                                introspect |-> last'.fetch.json,
                                cacheExpires |-> plusSeconds(now, tokenCacheSeconds)])
  /\ (last'.op = "request" /\ ValidIndices(tokenCache, TokenOf(last'), now) # {}) =>
       \E first \in ValidIndices(tokenCache, TokenOf(last'), now) :
         /\ \A i \in ValidIndices(tokenCache, TokenOf(last'), now) : first <= i
         /\ last'.p.w.chain.introspect = tokenCache[first].introspect
         /\ last'.p.w.calls = 0
         /\ pending' = pending /\ tokenCache' = tokenCache

(* C32: a request whose token has no valid entry in the cache calls        *)
(* fetch(), whatever requests of the same token are pending; each request  *)
(* whose fetch() brings a valid result appends its own entry, whatever     *)
(* entries of the token the cache holds; and a request whose token has     *)
(* valid entries takes the result of the first of them.                    *)
C32_NoDeduplication == [][C32_Step]_vars

(* Two requests of one token were pending together, the cache holds the    *)
(* two entries they appended, both valid and with different results, and a *)
(* third request has taken the result of the first.                        *)
C32_Witness ==
  /\ FromCache(last) /\ nreq = 3
  /\ Len(tokenCache) = 2
  /\ ValidIndices(tokenCache, TokenOf(last), now) = {1, 2}
  /\ tokenCache[1].introspect # tokenCache[2].introspect
  /\ last.p.w.chain.introspect = tokenCache[1].introspect

-----------------------------------------------------------------------------
(* SpecSerial: requests of one token, one at a time.  A request is taken   *)
(* when no other is pending, and the authorization server answers with a   *)
(* result that expires long after the run or after one second.  The cache  *)
(* is enabled with a TTL of one second, and authInit                       *)
(* may be called again at any time, each call disabling the cache when it  *)
(* is enabled and enabling it when it is disabled; the sweep runs and the  *)
(* clock advances by ticks.                                                *)

(* The result of token expiring after seconds seconds *)
ExpiringAt(token, seconds) == [serverResult(token) EXCEPT !.exp = Num(seconds)]

NextSerial ==
  \/ \E seconds \in {0, 1} :
       /\ ninit < MaxOps
       /\ seconds = (IF ninit = 0 \/ tokenCacheSeconds = 0 THEN 1 ELSE 0)
       /\ AuthInit(Obj(WithCache(seconds, 1)))
  \/ \E due \in 0..MaxTime : Sweep(due)
  \/ /\ ninit > 0 /\ pending = <<>> /\ nreq < MaxFlight
     /\ Request(Undefined, WithAuthorization(Header(Bearer, 1, TokenXYZ)))
  \/ \E body \in {serverResult(TokenXYZ), ExpiringAt(TokenXYZ, 1)} :
       pending # <<>> /\ FetchSettled(1, Json(Obj(body)))
  \/ now < MaxTime /\ Tick(1)

SpecSerial == Init /\ [][NextSerial]_vars

(* No two entries of the cache are entries of one token that are both      *)
(* still valid.                                                            *)
NoTwoValid ==
  \A i, j \in 1..Len(tokenCache) :
    (i < j /\ tokenCache[i].token = tokenCache[j].token) =>
      ~(StillValid(tokenCache[i], tokenCache[i].token, now)
          /\ StillValid(tokenCache[j], tokenCache[j].token, now))

(* C33 as stated: with requests processed one at a time, the cache never   *)
(* holds two entries of one token that would both pass the lookup.         *)
C33_NeverTwoValid == Len(pending) <= 1 /\ NoTwoValid

(* C33: with requests processed one at a time and authInit called once,    *)
(* the cache never holds two entries of one token that would both pass the *)
(* lookup.                                                                 *)
C33_NeverTwoValidOneInit == Len(pending) <= 1 /\ (ninit <= 1 => NoTwoValid)

(* Two entries of one token, the older one expired and not swept, the      *)
(* newer one valid, after a single call of authInit.                       *)
C33_Witness ==
  /\ ninit = 1 /\ pending = <<>>
  /\ Len(tokenCache) = 2
  /\ tokenCache[1].token = tokenCache[2].token
  /\ ~StillValid(tokenCache[1], tokenCache[1].token, now)
  /\ StillValid(tokenCache[2], tokenCache[2].token, now)

-----------------------------------------------------------------------------
(* SpecUsable: authInit called again and again, with options that make it  *)
(* throw at each of its checks and with two sets of credentials, and       *)
(* requests in between.                                                    *)

OtherCredentials == [authURL |-> Text(<<"v">>), clientId |-> Text(<<"j">>),
                     clientSecret |-> Text(<<"t">>)]

UsableOptions ==
  { Null, Obj(EmptyObject),
    Obj(Credentials), Obj(OtherCredentials), Obj(WithCache(0, 1)),
    Obj([Credentials EXCEPT !.authURL = Str(<<>>)]),
    Obj(Without(OtherCredentials, "clientId")),
    Obj([OtherCredentials EXCEPT !.clientSecret = Num(5)]),
    Obj(With(Without(OtherCredentials, "clientSecret"), "tokenCacheSeconds", Num(0))) }

NextUsable ==
  \/ \E options \in UsableOptions : ninit < MaxOps /\ AuthInit(options)
  \/ /\ pending = <<>> /\ nreq < MaxFlight
     /\ Request(Undefined, WithAuthorization(Header(Bearer, 1, TokenABC)))
  \/ \E outcome \in {Json(Obj(serverResult(TokenABC))), NetworkError} :
       pending # <<>> /\ FetchSettled(1, outcome)

SpecUsable == Init /\ [][NextUsable]_vars

(* The guard stage of the request passed: the next stage has run *)
GuardPassed(e) == Handled(e) /\ Ran(e, "extractTokenFromHeader")

C34_Step ==
  /\ (NotConfigured /\ ~NotConfigured') => (InitCalled /\ ~InitThrew(last'))
  /\ (last'.op = "request" /\ GuardPassed(last')) => ~NotConfigured
  /\ (last'.op = "request" /\ ~GuardPassed(last')) => NotConfigured

(* C34: the guard stage passes exactly when the module is configured; the  *)
(* module is not configured before the first call of authInit, and it      *)
(* becomes configured only in a call of authInit that returns without      *)
(* throwing: calls that throw, however many, do not make it usable.        *)
C34_UsableOnlyAfterSuccess ==
  /\ [](ninit = 0 => NotConfigured)
  /\ [][C34_Step]_vars

(* Two calls of authInit have thrown and left authURL and clientId set,    *)
(* and the request that follows fails at the guard.                        *)
C34_Witness ==
  /\ last.op = "request" /\ ~GuardPassed(last) /\ last.res.sends = 1
  /\ ninit = 2 /\ nreq = 1
  /\ ~IsNull(authURL) /\ ~IsNull(clientId) /\ IsNull(clientSecret)

(* The credentials the module holds *)
Triple == <<authURL, clientId, clientSecret>>

(* The credentials of the options with which authInit returns *)
GoodTriples ==
  {<<options.v.authURL, options.v.clientId, options.v.clientSecret>> :
     options \in {o \in UsableOptions : ValidCredentials(o)}}

C35_Step ==
  /\ (InitCalled /\ InitThrew(last')) => (UNCHANGED config /\ timers' = timers)
  /\ (last'.op = "request" /\ last'.p.w.calls > 0) => Triple \in GoodTriples

(* C35 as stated: a call of authInit that throws leaves authURL, clientId, *)
(* clientSecret, tokenCacheSeconds and tokenCacheCleanSeconds as they were *)
(* and schedules no sweep, and a request that calls fetch() does so with   *)
(* the credentials of one call of authInit that returned.                  *)
C35_ThrowLeavesState == [][C35_Step]_vars

-----------------------------------------------------------------------------
(* The sweep timers                                                        *)

(* The number of pending sweep timers *)
Pending(bag) == BagCardinality(bag)

(* The step is a call of authInit that returns with the cache not disabled *)
ChainStarted == InitCalled /\ ~InitThrew(last') /\ tokenCacheSeconds' # 0

C36_Step ==
  /\ Pending(timers') >= Pending(timers)
  /\ ChainStarted => Pending(timers') = Pending(timers) + 1
  /\ (InitCalled /\ ~ChainStarted) => timers' = timers
  /\ Swept =>
       /\ Pending(timers') = Pending(timers)
       /\ \E due \in BagToSet(timers), next \in BagToSet(timers') :
            timers' (-) SetToBag({next}) = timers (-) SetToBag({due})
  /\ (~InitCalled /\ ~Swept) => timers' = timers

(* C36: the number of pending sweep timers never decreases.  It is 0 at    *)
(* the start, each call of authInit that returns with tokenCacheSeconds    *)
(* different from 0 adds one timer, each run of the sweep replaces the     *)
(* timer that fired by one timer, and no other step changes the timers: a  *)
(* call of authInit that throws or that sets tokenCacheSeconds to 0 leaves *)
(* them as they are.                                                       *)
C36_SweepChains ==
  /\ [](ninit = 0 => timers = EmptyBag)
  /\ [][C36_Step]_vars

(* Two calls of authInit have each started a chain, a third has disabled   *)
(* the cache, and a sweep has run since: two timers are pending.           *)
C36_Witness ==
  /\ last.op = "sweep" /\ ninit = 3
  /\ tokenCacheSeconds = 0
  /\ Pending(timers) = 2

-----------------------------------------------------------------------------
(* SpecTransparent: the module with the cache enabled or disabled, in      *)
(* front of an authorization server whose answer for a token is always the *)
(* same.  Requests come one at a time, with and without a required scope.  *)

TokenUSR == Lit(<<"u", ".", "s", ".", "r">>)
TokenNET == Lit(<<"n", ".", "e", ".", "t">>)

(* The answer of the authorization server for token: a.b.c and x.y.z are   *)
(* valid, u.s.r is valid with a user that is null, the server fails on     *)
(* n.e.t, and every other token is not active.                             *)
Answer(token) ==
  IF token \in {TokenABC, TokenXYZ} THEN Json(Obj(serverResult(token)))
  ELSE IF token = TokenUSR
       THEN Json(Obj([serverResult(TokenABC) EXCEPT !.user = Null]))
  ELSE IF token = TokenNET THEN Response(500)
  ELSE Json(Obj([active |-> Bool(FALSE)]))

TransparentTokens == {TokenABC, TokenXYZ, TokenUSR, TokenNET, TokenABCNul}

NextTransparent ==
  \/ \E seconds \in {0, 1} : ninit = 0 /\ AuthInit(Obj(WithCache(seconds, 1)))
  \/ \E due \in 0..MaxTime : Sweep(due)
  \/ \E options \in {Undefined, Obj([scope |-> Str(ScopeWrite)])} :
       \E token \in TransparentTokens :
         /\ ninit = 1 /\ pending = <<>> /\ nreq < MaxFlight
         /\ Request(options, WithAuthorization(Header(Bearer, 1, token)))
  \/ /\ pending # <<>>
     /\ FetchSettled(1, Answer(pending[1].chain.accessToken.v))
  \/ now < MaxTime /\ Tick(1)

SpecTransparent == Init /\ [][NextTransparent]_vars

(* The chain of a request without the two stages of the cache: every       *)
(* request that passes the extraction asks the authorization server.       *)
Uncached(options, req) ==
  LET p == Then(_initChainObject(options, world(req)), _extractTokenFromHeader) IN
  IF p.state # "fulfilled" THEN p
  ELSE Then(Then(Then(Then(_validateTokenSettled(p.w, Answer(p.w.chain.accessToken.v)),
                           _checkTokenActive),
                      _addTokenScopeToReqObject),
                 _addUserIdToReqObject),
            _restrictByScope)

(* The fields a request has attached to the request object req *)
Attached(req) ==
  IF hasOwn(req, "locals")
  THEN [tokenScope |-> Get(req.locals, "tokenScope"),
        number |-> Get(userOf(req.locals), "number"),
        id |-> Get(userOf(req.locals), "id")]
  ELSE [tokenScope |-> Undefined, number |-> Undefined, id |-> Undefined]

(* What a request came to: next() or the status sent, and the fields *)
Came(p) == [nextCalls |-> respond(p).nextCalls, status |-> respond(p).status,
            fields |-> Attached(p.w.req)]

(* C37 as stated: with an authorization server whose answer for a token    *)
(* does not change, a request comes to the same outcome, next() or the     *)
(* same error status, and attaches the same tokenScope, user number and    *)
(* user id, whether the cache is enabled or disabled: to the outcome and   *)
(* the fields of the chain that asks the authorization server every time.  *)
C37_CacheTransparent ==
  Finished(last) =>
    /\ Came(last.p) = Came(Uncached(last.options, last.req))
    /\ last.res.nextCalls = respond(last.p).nextCalls
    /\ tokenCacheSeconds = 0 =>
         last.p.w.calls = (IF GuardPassed(last) /\ Ran(last, "validateToken") THEN 1 ELSE 0)

-----------------------------------------------------------------------------
(* The scope enforcement and the stages before it                          *)

(* The request fetched a valid result and was refused for its scope *)
RefusedForScope(e) == e.op = "settled" /\ ValidToken(e) /\ Answered(e, 403)

(* The request has the granted scopes of the result r, the empty list when *)
(* r has none, and the user number and user id r holds, on req.locals.     *)
Enriched(e, r) ==
  /\ hasOwn(e.p.w.req, "locals")
  /\ hasOwn(e.p.w.req.locals, "tokenScope")
  /\ e.p.w.req.locals.tokenScope = ScopeOrEmpty(r)
  /\ hasOwn(r.v, "user") =>
       /\ hasOwn(e.p.w.req.locals, "user")
       /\ Attached(e.p.w.req).number = Get(r.v.user.v, "number")
       /\ Attached(e.p.w.req).id = Get(r.v.user.v, "id")

C38_Step ==
  /\ RefusedForScope(last') =>
       /\ tokenCache' = Append(tokenCache,
                               [token |-> TokenOf(last'),
                                introspect |-> last'.fetch.json,
                                cacheExpires |-> plusSeconds(now, tokenCacheSeconds)])
       /\ Enriched(last', last'.fetch.json)
  /\ ( /\ RefusedForScope(last)
       /\ Greater(Get(last.fetch.json.v, "exp"), nowSeconds(now))
       /\ last'.op = "request" /\ nreq' = nreq + 1
       /\ TokenOf(last') = TokenOf(last) )
       => /\ FromCache(last') /\ last'.p.w.calls = 0
          /\ pending' = pending /\ tokenCache' = tokenCache
          /\ IF \/ RequiredScopes(last'.options) = {}
                \/ RequiredScopes(last'.options) \cap GrantedScopes(last.fetch.json) # {}
             THEN NextCalled(last')
             ELSE Answered(last', 403)

(* C38 as stated: a request with a valid token that is refused with 403    *)
(* for its scope has appended its entry to the cache and has set           *)
(* req.locals.tokenScope and, from a result with a user, req.locals.user;  *)
(* the request of the same token that follows at once, the exp of the      *)
(* result not yet reached, is answered from the cache without fetch(),     *)
(* with next() or with 403 as its own required scope decides.              *)
C38_ScopeAfterCacheAndContext == [][C38_Step]_vars

-----------------------------------------------------------------------------
(* The outcome of a call of the handler                                    *)

(* The calls of next() and the responses sent in the step recorded by e *)
Outcomes39(e) == e.res.nextCalls + e.res.sends

(* A call of the handler that has not ended has done nothing to next and   *)
(* res, and one that has ended has called next() once or sent one response.*)
OneOutcome ==
  Handled(last) =>
    /\ last.res.nextCalls \in {0, 1} /\ last.res.sends \in {0, 1}
    /\ Outcomes39(last) = (IF Finished(last) THEN 1 ELSE 0)
    /\ NextCalled(last) <=> (Finished(last) /\ last.p.state = "fulfilled")

(* The calls of the handler made in a step are the calls that are left     *)
(* pending by it and the outcomes it produces: a call ends once.           *)
OutcomeStep ==
  Handled(last') =>
    (nreq' - nreq) + Len(pending) = Len(pending') + Outcomes39(last')

(* C39: a call of the handler of requireAccessToken ends in one outcome,   *)
(* next() called once or one error response sent, never both and neither   *)
(* twice; while its fetch() is pending it has produced none.               *)
C39_OneTerminalOutcome == []OneOutcome /\ [][OutcomeStep]_vars

(* The first of two requests that were pending together has ended in       *)
(* next(), the second is still pending.                                    *)
C39_Witness ==
  /\ last.op = "settled" /\ NextCalled(last) /\ last.res.sends = 0
  /\ nreq = 2 /\ Len(pending) = 1

-----------------------------------------------------------------------------
(* SpecLife: the life of a cache entry.  Requests of one token, up to two  *)
(* of them in flight together; the authorization server answers with the   *)
(* result of the token or, the token revoked, with an inactive result.     *)
(* authInit is called with a TTL of two seconds, and may be called again   *)
(* with a TTL of one second; the sweep runs and the clock advances by      *)
(* ticks.                                                                  *)

Revoked == Json(Obj([active |-> Bool(FALSE)]))

NextLife ==
  \/ \E seconds \in {1, 2} : seconds = 2 - ninit /\ AuthInit(Obj(WithCache(seconds, 1)))
  \/ \E due \in 0..MaxTime : Sweep(due)
  \/ /\ ninit > 0 /\ Len(pending) < 2 /\ nreq < MaxFlight
     /\ Request(Undefined, WithAuthorization(Header(Bearer, 1, TokenXYZ)))
  \/ \E i \in 1..2 : \E outcome \in {Json(Obj(serverResult(TokenXYZ))), Revoked} :
       FetchSettled(i, outcome)
  \/ now < MaxTime /\ Tick(1)

SpecLife == Init /\ [][NextLife]_vars

(* c2 is c1 with some of its entries removed, the others as they were *)
SubSeqOf(c2, c1) ==
  /\ Len(c2) <= Len(c1)
  /\ \E f \in [1..Len(c2) -> 1..Len(c1)] :
       /\ \A i, j \in 1..Len(c2) : i < j => f[i] < f[j]
       /\ \A i \in 1..Len(c2) : c2[i] = c1[f[i]]

(* The entries of the cache are left as they are or removed, and the only  *)
(* new entry is the one appended for the result that has been fetched,     *)
(* expiring tokenCacheSeconds after the insertion.                         *)
EntriesFixed ==
  \/ SubSeqOf(tokenCache', tokenCache)
  \/ /\ last'.op = "settled" /\ ActiveWithClient(ResultOf(last'))
     /\ tokenCache' = Append(tokenCache,
                        [token |-> TokenOf(last'), introspect |-> ResultOf(last'),
                         cacheExpires |-> plusSeconds(now, tokenCacheSeconds)])

(* A request served from the cache is served the stored result of an       *)
(* entry of its token before the cacheExpires of the entry, and leaves the *)
(* cache as it is.                                                         *)
HitBeforeExpiry ==
  FromCache(last') =>
    /\ tokenCache' = tokenCache
    /\ \E entry \in Entries(tokenCache) :
         /\ entry.token = TokenOf(last')
         /\ entry.introspect = ResultOf(last')
         /\ now < entry.cacheExpires

(* The entry of the most recent insertion of token that is in the cache *)
Newest(cache, token) ==
  LET same == {i \in 1..Len(cache) : cache[i].token = token} IN
  cache[CHOOSE i \in same : \A j \in same : j <= i]

(* A request served from the cache is served no later than the             *)
(* cacheExpires of the most recent insertion of its token.                 *)
HitBeforeNewestExpiry ==
  FromCache(last') => now <= Newest(tokenCache, TokenOf(last')).cacheExpires

(* A request of a token of which no entry is before its cacheExpires asks  *)
(* the authorization server, and a token the server reports as inactive is *)
(* rejected with 401.                                                      *)
RevokedRejected ==
  /\ (/\ last'.op = "request" /\ TokenOf(last') # Undefined
      /\ \A entry \in Entries(tokenCache) :
           entry.token = TokenOf(last') => now >= entry.cacheExpires) =>
       /\ ~Finished(last') /\ Len(pending') = Len(pending) + 1
  /\ (last'.op = "settled" /\ last'.fetch = Revoked) =>
       /\ Answered(last', 401) /\ tokenCache' = tokenCache

(* C40 as stated: the entries of the cache are never modified, a token is  *)
(* served from the cache only before tokenCacheSeconds have passed since   *)
(* the insertion that followed its most recent remote validation, and      *)
(* after that a revoked token is rejected.                                 *)
C40_NoLongerThanNewest ==
  [][EntriesFixed /\ HitBeforeExpiry /\ HitBeforeNewestExpiry /\ RevokedRejected]_vars

(* C40: the entries of the cache are never modified, a token is served     *)
(* from the cache only before the cacheExpires of the entry it is served   *)
(* from, which is the insertion plus the tokenCacheSeconds of that time,   *)
(* and with authInit called once only before tokenCacheSeconds have passed *)
(* since the most recent insertion of the token; after that a revoked      *)
(* token is rejected.                                                      *)
C40_NoLongerThanEntry ==
  [][/\ EntriesFixed /\ HitBeforeExpiry /\ RevokedRejected
     /\ ninit <= 1 => HitBeforeNewestExpiry]_vars

(* The third request of a run is served from the only entry of the cache   *)
(* in the last tick before the cacheExpires of the entry, two seconds      *)
(* after the insertion.                                                    *)
C40_Witness ==
  /\ FromCache(last) /\ NextCalled(last)
  /\ nreq = 3 /\ ninit = 1 /\ tokenCacheSeconds = 2 /\ pending = <<>>
  /\ Len(tokenCache) = 1 /\ tokenCache[1].token = TokenOf(last)
  /\ now + 1 = tokenCache[1].cacheExpires
====
